---------------------------- MODULE Spec2Model ----------------------------
(***************************************************************************)
(* A model of tenzro-c0re: the storage manager with its three storage      *)
(* providers (src/storage/manager.ts, local.ts, network.ts, p2p.ts), the   *)
(* chunk manager (src/storage/chunk.ts), the k-bucket routing table        *)
(* (src/dht/kbucket.ts), the DHT protocol (src/dht/protocol.ts), the DHT   *)
(* node (src/dht/network.ts), the bridge (src/integration/bridge.ts), the  *)
(* content discovery (src/discovery/content.ts), the search index          *)
(* (src/search/index.ts) and the C0reNode (src/integration/core.ts).       *)
(*                                                                         *)
(* An optional JavaScript value is a sequence of length 0 (undefined) or   *)
(* 1 (the value).  A call's outcome is a record [ok, val, err, w]: ok      *)
(* tells a return from a throw, val is the returned value, err the error   *)
(* code and w the state the call leaves behind.                            *)
(***************************************************************************)
EXTENDS Integers, Sequences, FiniteSets, TLC

(***************************************************************************)
(* Bounds of the model.                                                    *)
(***************************************************************************)
\* Length of the longest buffer handed to store.
MaxLen == 2
\* Byte values are 0..MaxByte.
MaxByte == 1
\* Chunk size of every chunk manager (defaultChunkSize; 1 MiB in the code).
ChunkSize == 1
\* Largest value of the storage clock (Date.now()).
MaxClock == 1
\* Number of storage manager calls in one behaviour.
MaxOps == 2
\* Largest replicas option / replicationFactor that is tried.
MaxReplicas == 2
\* Number of artifacts held at once.
MaxStored == 1
\* Entries an index key keeps (1000 in the code).
MaxIndexEntries == 2
\* addToIndex calls suspended at once.
MaxAdds == 2
\* Bytes of a DHT key (DHTProtocol.KEY_SIZE; 32 in the code).
KEY_SIZE == 1
\* Peers a bucket holds (KBucket.kSize; 20 by default in the code).
kSize == 2
\* Age after which a peer is stale (1 hour in the code), in clock ticks.
STALE_THRESHOLD == 0
\* Largest value of the routing table's clock (Date.now()).
MaxTime == 1
\* Number of addPeer calls that can be suspended at their await at once.
MaxPending == 1
\* DHTProtocol.validateMessage's MAX_TIME_DIFF (5 minutes in the code), in
\* clock ticks.
MAX_TIME_DIFF == 1

Undefined == <<>>
Some(v) == <<v>>
\* JavaScript's a ?? b
Nullish(a, b) == IF a = Undefined THEN b ELSE a

Min(a, b) == IF a < b THEN a ELSE b

Bytes == 0..MaxByte
Buffers == UNION {[1..n -> Bytes] : n \in 0..MaxLen}

\* f with key k bound to v (Map.set, fs.writeFile).
Put(f, k, v) == [x \in DOMAIN f \cup {k} |-> IF x = k THEN v ELSE f[x]]
\* f without key k (Map.delete, fs.unlink).
Remove(f, k) == [x \in DOMAIN f \ {k} |-> f[x]]
EmptyMap == [x \in {} |-> 0]

\* Array.prototype.slice(start, end) for 0 <= start; a negative end counts
\* from the end of the array.
JsSlice(s, start, end) ==
    LET e0 == IF end < 0 THEN Len(s) + end ELSE Min(end, Len(s))
        e == IF e0 < 0 THEN 0 ELSE e0
    IN IF e <= start THEN <<>> ELSE SubSeq(s, start + 1, e)

Ok(w, v) == [ok |-> TRUE, val |-> v, err |-> "", w |-> w]
Throw(w, code) == [ok |-> FALSE, val |-> Undefined, err |-> code, w |-> w]

(***************************************************************************)
(* Hashes.  SHA-256 is modelled as an injective tagging of its input.      *)
(***************************************************************************)
calculateChecksum(data) == <<"sha256", data>>
generateId(data, t) == <<"sha256", data, t>>

(***************************************************************************)
(* The chunk manager.                                                      *)
(***************************************************************************)
\* The location split gives every chunk.
\* The location split gives a chunk; the empty endpoint '' is Undefined.
SplitLocation ==
    [nodeId |-> "", storageType |-> "local", protocol |-> "file", endpoint |-> Undefined]

\* A split that makes one chunk of all the data.
SplitWhole(data, chunkSize, index, offset) ==
    IF offset < Len(data)
    THEN <<[index |-> index, size |-> Len(data) - offset,
            checksum |-> calculateChecksum(SubSeq(data, offset + 1, Len(data))),
            location |-> Some(SplitLocation), replicas |-> 0]>>
    ELSE <<>>

RECURSIVE SplitFrom(_, _, _, _)
SplitFrom(data, chunkSize, index, offset) ==
    IF offset < Len(data)
    THEN LET size == Min(chunkSize, Len(data) - offset)
             chunk == SubSeq(data, offset + 1, offset + size)
         IN <<[index |-> index, size |-> size,
               checksum |-> calculateChecksum(chunk),
               location |-> Some(SplitLocation), replicas |-> 0]>>
            \o SplitFrom(data, chunkSize, index + 1, offset + size)
    ELSE <<>>

split(data, chunkSize) == SplitFrom(data, chunkSize, 0, 0)

\* A validation of the length alone.
validateSize(chunk, info) == Len(chunk) = info.size

validate(chunk, info) ==
    IF Len(chunk) # info.size THEN FALSE
    ELSE calculateChecksum(chunk) = info.checksum

\* Insertion of pair p into a list of pairs sorted by info.index (stable).
RECURSIVE InsertByIndex(_, _)
InsertByIndex(sorted, p) ==
    IF sorted = <<>> THEN <<p>>
    ELSE IF p.info.index < Head(sorted).info.index THEN <<p>> \o sorted
    ELSE <<Head(sorted)>> \o InsertByIndex(Tail(sorted), p)

\* The pairs in the order they are given.
KeepPairs(pairs) == pairs

RECURSIVE SortPairs(_)
SortPairs(pairs) ==
    IF pairs = <<>> THEN <<>>
    ELSE InsertByIndex(SortPairs(SubSeq(pairs, 1, Len(pairs) - 1)), pairs[Len(pairs)])

RECURSIVE ConcatData(_)
ConcatData(pairs) ==
    IF pairs = <<>> THEN <<>> ELSE Head(pairs).data \o ConcatData(Tail(pairs))

\* combine returns [ok, val, err]: it reads and writes no state.
combine(chunks, info) ==
    IF Len(chunks) # Len(info) THEN [ok |-> FALSE, val |-> Undefined, err |-> "Error"]
    ELSE LET sortedPairs == SortPairs([i \in 1..Len(info) |-> [info |-> info[i], data |-> chunks[i]]])
         IN IF \E i \in 1..Len(sortedPairs) : ~validate(sortedPairs[i].data, sortedPairs[i].info)
            THEN [ok |-> FALSE, val |-> Undefined, err |-> "CHUNK_VALIDATION_ERROR"]
            ELSE [ok |-> TRUE, val |-> ConcatData(sortedPairs), err |-> ""]

(***************************************************************************)
(* config.dht of the network and P2P providers: DHTNetwork.put, get and   *)
(* delete over a network whose peers answer a STORE by keeping the value   *)
(* under the key (null removes it) and a FIND_VALUE with the value they    *)
(* keep, as the peer network of the tests does.  Every call throws while   *)
(* the network is not started.                                             *)
(***************************************************************************)
DhtPut(w, key, value) ==
    IF ~w.connected THEN Throw(w, "DHT network not started")
    ELSE Ok([w EXCEPT !.dht = Put(@, key, value)], Undefined)

DhtGet(w, key) ==
    IF ~w.connected THEN Throw(w, "DHT network not started")
    ELSE IF key \in DOMAIN w.dht THEN Ok(w, w.dht[key])
    ELSE Throw(w, "Value not found")

DhtDelete(w, key) ==
    IF ~w.connected THEN Throw(w, "DHT network not started")
    ELSE Ok([w EXCEPT !.dht = Remove(@, key)], Undefined)

\* The first failing call of a list of outcomes, or "" when none failed.
RECURSIVE FirstError(_)
FirstError(codes) ==
    IF codes = <<>> THEN ""
    ELSE IF Head(codes) # "" THEN Head(codes) ELSE FirstError(Tail(codes))

ZeroStats == [used |-> 0, files |-> 0, chunks |-> 0, reads |-> 0, writes |-> 0, deletes |-> 0]

\* updateStatsOnStore / updateStatsOnDelete of a provider.
StatsOnStore(st, metadata) ==
    [st EXCEPT !.files = @ + 1, !.chunks = @ + Len(metadata.chunks), !.used = @ + metadata.size]

StatsOnDelete(st, metadata) ==
    [st EXCEPT !.files = @ - 1, !.chunks = @ - Len(metadata.chunks), !.used = @ - metadata.size]

\* validateChecksum of a provider, given the outcomes m of its getMetadata
\* and r of its retrieve (which runs only when getMetadata returned).
ValidateChecksumWith(w, m, r) ==
    IF ~m.ok THEN Throw(w, m.err)
    ELSE IF ~r.ok THEN r
    ELSE Ok(r.w, calculateChecksum(r.val) = m.val.checksum)

\* The outcome of a retrieve whose combine ended as c; a provider that wraps
\* its errors throws code instead of combine's error.
CombinedOutcome(w, c, code) ==
    IF c.ok THEN Ok(w, c.val) ELSE Throw(w, IF code = "" THEN c.err ELSE code)

(***************************************************************************)
(* LocalStorageProvider.  fsMeta holds the files <root>/metadata/<id>,     *)
(* fsChunks the files <root>/chunks/<id>/<index>.                          *)
(***************************************************************************)
ChunkPath(id, index) == <<"chunks", id, index>>

LocalMetadata(data, t, id, chunks) ==
    [id |-> id, size |-> Len(data),
     chunks |-> [i \in 1..Len(chunks) |->
                   [chunks[i] EXCEPT !.location =
                       Some([chunks[i].location[1] EXCEPT
                               !.nodeId = "local",
                               !.endpoint = Some(ChunkPath(id, i - 1)),
                               !.protocol = "file"])]],
     created |-> t, checksum |-> calculateChecksum(data), storageType |-> "local",
     replicas |-> 1]

\* The chunk files after store wrote chunk index as data.slice(index *
\* chunkSize, index * chunkSize + chunk.size).
LocalWriteChunks(files, data, chunkSize, id, chunks) ==
    [p \in DOMAIN files \cup {ChunkPath(id, i - 1) : i \in 1..Len(chunks)} |->
        IF p \in {ChunkPath(id, i - 1) : i \in 1..Len(chunks)}
        THEN JsSlice(data, p[3] * chunkSize, p[3] * chunkSize + chunks[p[3] + 1].size)
        ELSE files[p]]

LocalStore(w, data, options, t) ==
    LET Stored(id, chunks) ==
            LET Written(metadata) ==
                    Ok([w EXCEPT !.fsChunks = LocalWriteChunks(@, data, ChunkSize, id, chunks),
                                 !.fsMeta = Put(@, id, metadata),
                                 !.stats.local = [StatsOnStore(@, metadata) EXCEPT
                                                     !.writes = @ + 1]],
                       metadata)
            IN Written(LocalMetadata(data, t, id, chunks))
    IN Stored(generateId(data, t), split(data, ChunkSize))

LocalGetMetadata(w, id) ==
    IF id \in DOMAIN w.fsMeta THEN Ok(w, w.fsMeta[id]) ELSE Throw(w, "ENOENT")

\* "" when the chunk's file can be read, else the error the read ends in.
LocalReadError(w, chunkInfo) ==
    IF chunkInfo.location = Undefined THEN "TypeError"
    ELSE IF chunkInfo.location[1].endpoint = Undefined THEN "Missing chunk endpoint"
    ELSE IF chunkInfo.location[1].endpoint[1] \notin DOMAIN w.fsChunks THEN "ENOENT"
    ELSE ""

LocalRetrieve(w, id) ==
    LET Read(w1, m) ==
            LET Combined(info, failed) ==
                    IF failed # "" THEN Throw(w1, failed)
                    ELSE CombinedOutcome(w1,
                            combine([i \in 1..Len(info) |->
                                        w1.fsChunks[info[i].location[1].endpoint[1]]], info),
                            "")
            IN IF ~m.ok THEN Throw(w1, m.err)
               ELSE Combined(m.val.chunks,
                             FirstError([i \in 1..Len(m.val.chunks) |->
                                            LocalReadError(w1, m.val.chunks[i])]))
    IN Read([w EXCEPT !.stats.local.reads = @ + 1], LocalGetMetadata(w, id))

LocalValidateChecksum(w, id) ==
    ValidateChecksumWith(w, LocalGetMetadata(w, id), LocalRetrieve(w, id))

\* delete never throws: it returns false when a step failed.  The unlinks
\* of the chunk files all run, so the files that exist are removed even
\* when another unlink fails.
LocalDelete(w, id) ==
    LET Unlinked(metadata, paths) ==
            IF ~(paths \subseteq DOMAIN w.fsChunks)
            THEN Ok([w EXCEPT !.fsChunks = [p \in DOMAIN @ \ paths |-> @[p]]], FALSE)
            ELSE Ok([w EXCEPT !.fsChunks = [p \in DOMAIN @ \ paths |-> @[p]],
                              !.fsMeta = Remove(@, id),
                              !.stats.local = [StatsOnDelete(@, metadata) EXCEPT
                                                  !.deletes = @ + 1]],
                    TRUE)
        Deleted(m) ==
            IF ~m.ok THEN Ok(w, FALSE)
            ELSE IF \E i \in 1..Len(m.val.chunks) :
                       \/ m.val.chunks[i].location = Undefined
                       \/ m.val.chunks[i].location[1].endpoint = Undefined
            THEN Ok(w, FALSE)
            ELSE Unlinked(m.val,
                    {m.val.chunks[i].location[1].endpoint[1] : i \in 1..Len(m.val.chunks)})
    IN Deleted(LocalGetMetadata(w, id))

(***************************************************************************)
(* NetworkStorageProvider.  findStorageNodes returns no node, so storeChunk*)
(* stores a chunk nowhere and leaves its location undefined;               *)
(* retrieveChunkFromNode returns an empty buffer.  No minReplicas is       *)
(* configured.                                                             *)
(***************************************************************************)
MetadataKey(id) == <<"metadata:", id>>
ChunkKey(checksum) == <<"chunk:", checksum>>

NetworkStoreChunk(chunk) == [chunk EXCEPT !.location = Undefined, !.replicas = 0]

NetworkMetadata(data, options, t, id, chunks) ==
    [id |-> id, size |-> Len(data),
     chunks |-> [i \in 1..Len(chunks) |-> NetworkStoreChunk(chunks[i])],
     created |-> t, checksum |-> calculateChecksum(data), storageType |-> "network",
     replicas |-> Nullish(options.replicas, Some(3))[1]]

NetworkStore(w, data, options, t) ==
    LET Stored(w1, metadata) ==
            LET Kept(p) ==
                    IF ~p.ok THEN Throw(w1, "NETWORK_STORE_ERROR")
                    ELSE Ok([p.w EXCEPT !.stats.network = StatsOnStore(@, metadata)], metadata)
            IN Kept(DhtPut(w1, MetadataKey(metadata.id), metadata))
    IN Stored([w EXCEPT !.stats.network.writes = @ + 1],
              NetworkMetadata(data, options, t, generateId(data, t), split(data, ChunkSize)))

NetworkGetMetadata(w, id) == DhtGet(w, MetadataKey(id))

NetworkRetrieveChunk(chunk) == <<>>

NetworkRetrieve(w, id) ==
    LET Read(w1, m) ==
            IF ~m.ok THEN Throw(w1, "NETWORK_RETRIEVE_ERROR")
            ELSE CombinedOutcome(w1,
                    combine([i \in 1..Len(m.val.chunks) |-> NetworkRetrieveChunk(m.val.chunks[i])],
                            m.val.chunks),
                    "NETWORK_RETRIEVE_ERROR")
    IN Read([w EXCEPT !.stats.network.reads = @ + 1], NetworkGetMetadata(w, id))

NetworkValidateChecksum(w, id) ==
    ValidateChecksumWith(w, NetworkGetMetadata(w, id), NetworkRetrieve(w, id))

\* delete removes the chunk keys and the metadata key from the DHT; the
\* network is started whenever the metadata could be read, so none throws.
NetworkDelete(w, id) ==
    LET Deleted(w1, m) ==
            IF ~m.ok THEN Ok(w1, FALSE)
            ELSE Ok([w1 EXCEPT
                       !.dht = [k \in DOMAIN @ \ ({MetadataKey(id)} \cup
                                   {ChunkKey(m.val.chunks[i].checksum) :
                                      i \in 1..Len(m.val.chunks)}) |-> @[k]],
                       !.stats.network = StatsOnDelete(@, m.val)],
                    TRUE)
    IN Deleted([w EXCEPT !.stats.network.deletes = @ + 1], NetworkGetMetadata(w, id))

(***************************************************************************)
(* P2PStorageProvider.  localChunks maps a chunk checksum to the bytes     *)
(* held for it, peerChunks to the peers known to hold it.  No storage      *)
(* limit is configured (available = Infinity), so hasStorageSpace holds.   *)
(***************************************************************************)
P2PNodeId == "self"
P2PMetadataKey(id) == <<"p2p:metadata:", id>>

\* Buffer.alloc(size): size zero bytes.
BufferAlloc(size) == [i \in 1..size |-> 0]

P2PLocation ==
    [nodeId |-> P2PNodeId, storageType |-> "p2p", protocol |-> "p2p", endpoint |-> Undefined]

PeersOf(w, checksum) ==
    IF checksum \in DOMAIN w.peerChunks THEN w.peerChunks[checksum] ELSE {}

\* storeChunk for the chunks of one store: what it writes to localChunks
\* and peerChunks.
P2PStoreChunks(w, chunks) ==
    [w EXCEPT
       !.localChunks = [c \in DOMAIN @ \cup {chunks[i].checksum : i \in 1..Len(chunks)} |->
                          IF \E i \in 1..Len(chunks) : chunks[i].checksum = c
                          THEN BufferAlloc((CHOOSE ch \in {chunks[i] : i \in 1..Len(chunks)} :
                                               ch.checksum = c).size)
                          ELSE @[c]],
       !.peerChunks = [c \in DOMAIN @ \cup {chunks[i].checksum : i \in 1..Len(chunks)} |->
                         IF \E i \in 1..Len(chunks) : chunks[i].checksum = c
                         THEN PeersOf(w, c) \cup {P2PNodeId}
                         ELSE @[c]]]

P2PGetPeerCount(w, chunks) ==
    Cardinality(UNION {PeersOf(w, chunks[i].checksum) : i \in 1..Len(chunks)})

P2PMetadata(w, data, t, id, chunks) ==
    [id |-> id, size |-> Len(data),
     chunks |-> [i \in 1..Len(chunks) |-> [chunks[i] EXCEPT !.location = Some(P2PLocation)]],
     created |-> t, checksum |-> calculateChecksum(data), storageType |-> "p2p",
     replicas |-> P2PGetPeerCount(w, chunks)]

P2PStore(w, data, options, t) ==
    LET Stored(w1, chunks) ==
            LET Described(w2, metadata) ==
                    LET Kept(p) ==
                            IF ~p.ok THEN Throw(w2, "P2P_STORE_ERROR")
                            ELSE Ok([p.w EXCEPT !.stats.p2p = StatsOnStore(@, metadata)], metadata)
                    IN Kept(DhtPut(w2, P2PMetadataKey(metadata.id), metadata))
            IN Described(P2PStoreChunks(w1, chunks),
                         P2PMetadata(P2PStoreChunks(w1, chunks), data, t, generateId(data, t),
                                     chunks))
    IN Stored([w EXCEPT !.stats.p2p.writes = @ + 1], split(data, ChunkSize))

P2PGetMetadata(w, id) == DhtGet(w, P2PMetadataKey(id))

\* retrieveChunk: the local copy, else the empty buffer retrieveChunkFromPeer
\* returns for the first known holder, else CHUNK_NOT_FOUND.
P2PRetrieveChunk(w, chunk) ==
    IF chunk.checksum \in DOMAIN w.localChunks
    THEN [ok |-> TRUE, val |-> w.localChunks[chunk.checksum]]
    ELSE IF PeersOf(w, chunk.checksum) = {}
    THEN [ok |-> FALSE, val |-> Undefined]
    ELSE [ok |-> TRUE, val |-> BufferAlloc(0)]

P2PRetrieve(w, id) ==
    LET Read(w1, m) ==
            IF ~m.ok THEN Throw(w1, "P2P_RETRIEVE_ERROR")
            ELSE IF \E i \in 1..Len(m.val.chunks) : ~P2PRetrieveChunk(w1, m.val.chunks[i]).ok
            THEN Throw(w1, "P2P_RETRIEVE_ERROR")
            ELSE CombinedOutcome(w1,
                    combine([i \in 1..Len(m.val.chunks) |->
                                P2PRetrieveChunk(w1, m.val.chunks[i]).val],
                            m.val.chunks),
                    "P2P_RETRIEVE_ERROR")
    IN Read([w EXCEPT !.stats.p2p.reads = @ + 1], P2PGetMetadata(w, id))

P2PValidateChecksum(w, id) ==
    ValidateChecksumWith(w, P2PGetMetadata(w, id), P2PRetrieve(w, id))

P2PDelete(w, id) ==
    LET Deleted(w1, m) ==
            IF ~m.ok THEN Ok(w1, FALSE)
            ELSE Ok([w1 EXCEPT
                       !.localChunks = [c \in DOMAIN @ \ {m.val.chunks[i].checksum :
                                                            i \in 1..Len(m.val.chunks)} |-> @[c]],
                       !.stats.p2p = StatsOnDelete(@, m.val)],
                    TRUE)
    IN Deleted([w EXCEPT !.stats.p2p.deletes = @ + 1], P2PGetMetadata(w, id))

(***************************************************************************)
(* StorageManager.  w.providers lists the names of the configured          *)
(* providers in the insertion order of the providers map (local, network,  *)
(* p2p); w.metadataCache is the metadata cache; w.events are the events    *)
(* the running call has emitted so far.                                    *)
(***************************************************************************)
ProviderNames == <<"local", "network", "p2p">>
Strategies == {"local-only", "network-only", "p2p-only", "hybrid"}

\* provider.constructor.name.toLowerCase()
ConstructorNameLower(p) ==
    CASE p = "local" -> "localstorageprovider"
      [] p = "network" -> "networkstorageprovider"
      [] p = "p2p" -> "p2pstorageprovider"

ProviderStore(p, w, data, options, t) ==
    CASE p = "local" -> LocalStore(w, data, options, t)
      [] p = "network" -> NetworkStore(w, data, options, t)
      [] p = "p2p" -> P2PStore(w, data, options, t)

ProviderRetrieve(p, w, id) ==
    CASE p = "local" -> LocalRetrieve(w, id)
      [] p = "network" -> NetworkRetrieve(w, id)
      [] p = "p2p" -> P2PRetrieve(w, id)

ProviderDelete(p, w, id) ==
    CASE p = "local" -> LocalDelete(w, id)
      [] p = "network" -> NetworkDelete(w, id)
      [] p = "p2p" -> P2PDelete(w, id)

ProviderGetMetadata(p, w, id) ==
    CASE p = "local" -> LocalGetMetadata(w, id)
      [] p = "network" -> NetworkGetMetadata(w, id)
      [] p = "p2p" -> P2PGetMetadata(w, id)

ProviderValidateChecksum(p, w, id) ==
    CASE p = "local" -> LocalValidateChecksum(w, id)
      [] p = "network" -> NetworkValidateChecksum(w, id)
      [] p = "p2p" -> P2PValidateChecksum(w, id)

\* this.emit(type, {id, ...}): a listener runs at once; cached tells whether
\* it then finds the id in the metadata cache.
Emit(w, event) ==
    [w EXCEPT !.events = Append(@, event @@ [cached |-> event.id \in DOMAIN w.metadataCache])]

getProvidersForStrategy(w, strategy) ==
    CASE strategy = "local-only" -> SelectSeq(w.providers, LAMBDA p : p = "local")
      [] strategy = "network-only" -> SelectSeq(w.providers, LAMBDA p : p = "network")
      [] strategy = "p2p-only" -> SelectSeq(w.providers, LAMBDA p : p = "p2p")
      [] strategy = "hybrid" -> w.providers
      [] OTHER -> <<>>

\* chunks.some(chunk => chunk.location.storageType === name): "true", "false",
\* or "throw" when it reads the storageType of an undefined location.
RECURSIVE SomeChunkStoredBy(_, _)
SomeChunkStoredBy(chunks, name) ==
    IF chunks = <<>> THEN "false"
    ELSE IF Head(chunks).location = Undefined THEN "throw"
    ELSE IF Head(chunks).location[1].storageType = name THEN "true"
    ELSE SomeChunkStoredBy(Tail(chunks), name)

\* [ok, val]: the providers that can handle the metadata, or the TypeError.
getProvidersForMetadata(w, metadata) ==
    IF \E i \in 1..Len(w.providers) :
          SomeChunkStoredBy(metadata.chunks, ConstructorNameLower(w.providers[i])) = "throw"
    THEN [ok |-> FALSE, val |-> <<>>]
    ELSE [ok |-> TRUE,
          val |-> SelectSeq(w.providers,
                     LAMBDA p : SomeChunkStoredBy(metadata.chunks, ConstructorNameLower(p)) = "true")]

\* findMetadata: the first provider's metadata for id, else null (Undefined).
RECURSIVE FindMetadataIn(_, _, _)
FindMetadataIn(w, providers, id) ==
    LET First(m) == IF m.ok THEN Some(m.val) ELSE FindMetadataIn(w, Tail(providers), id)
    IN IF providers = <<>> THEN Undefined
       ELSE First(ProviderGetMetadata(Head(providers), w, id))

findMetadata(w, id) == FindMetadataIn(w, w.providers, id)

\* The loop of retrieve over the providers that can handle the metadata:
\* r is the outcome of provider.retrieve, v of provider.validateChecksum.
RECURSIVE RetrieveFrom(_, _, _)
RetrieveFrom(w, providers, id) ==
    LET Validated(r, v) ==
            IF ~v.ok \/ ~v.val THEN RetrieveFrom(v.w, Tail(providers), id)
            ELSE Ok(Emit(v.w, [type |-> "retrieved", id |-> id, provider |-> Head(providers)]),
                    r.val)
        Tried(r) ==
            IF ~r.ok THEN RetrieveFrom(r.w, Tail(providers), id)
            ELSE Validated(r, ProviderValidateChecksum(Head(providers), r.w, id))
    IN IF providers = <<>> THEN Throw(w, "RETRIEVE_ERROR")
       ELSE Tried(ProviderRetrieve(Head(providers), w, id))

\* StorageManager.retrieve(id, {preferredProvider}).  The preferred
\* provider's bytes are returned as they are.
retrieve(w, id, preferredProvider) ==
    LET Preferred(providers, pr) == IF pr.ok THEN pr ELSE RetrieveFrom(pr.w, providers, id)
        Via(w1, providers) ==
            IF ~providers.ok THEN Throw(w1, "TypeError")
            ELSE IF Len(providers.val) = 0 THEN Throw(w1, "NO_PROVIDERS")
            ELSE IF /\ preferredProvider # Undefined
                    /\ \E i \in 1..Len(w1.providers) : w1.providers[i] = preferredProvider[1]
            THEN Preferred(providers.val, ProviderRetrieve(preferredProvider[1], w1, id))
            ELSE RetrieveFrom(w1, providers.val, id)
        Found(metadata) ==
            IF metadata = Undefined THEN Throw(w, "NOT_FOUND")
            ELSE Via([w EXCEPT !.metadataCache = Put(@, id, metadata[1])],
                     getProvidersForMetadata(w, metadata[1]))
    IN Found(IF id \in DOMAIN w.metadataCache THEN Some(w.metadataCache[id])
             ELSE findMetadata(w, id))

\* StorageManager.replicateToProvider: it catches every error.
replicateToProvider(w, metadata, provider, options, t) ==
    LET Stored(st) ==
            Emit(st.w, [type |-> IF st.ok THEN "replicated" ELSE "replication-failed",
                        id |-> metadata.id, provider |-> provider])
        Retrieved(r) ==
            IF ~r.ok
            THEN Emit(r.w, [type |-> "replication-failed", id |-> metadata.id,
                            provider |-> provider])
            ELSE Stored(ProviderStore(provider, r.w, r.val,
                                      [options EXCEPT !.replicas = Some(1)], t))
    IN Retrieved(retrieve(w, metadata.id, Undefined))

RECURSIVE ReplicateToAll(_, _, _, _, _)
ReplicateToAll(w, metadata, providers, options, t) ==
    IF providers = <<>> THEN w
    ELSE ReplicateToAll(replicateToProvider(w, metadata, Head(providers), options, t),
                        metadata, Tail(providers), options, t)

\* StorageManager.handleReplication: the replications run one after the
\* other in the order of the providers; Promise.allSettled awaits them all.
handleReplication(w, metadata, providers, options, t) ==
    ReplicateToAll(w, metadata,
        JsSlice(providers, 0,
                Nullish(options.replicas, Nullish(w.replicationFactor, Some(1)))[1] - 1),
        options, t)

\* A store that fails when a replication failed.
StoreUnlessFailed(w, primaryMetadata, providers, strategy) ==
    IF \E i \in 1..Len(w.events) : w.events[i].type = "replication-failed"
    THEN Throw(w, "STORE_ERROR")
    ELSE Ok(Emit(w, [type |-> "stored", id |-> primaryMetadata.id, size |-> primaryMetadata.size,
                     replicas |-> Len(providers), strategy |-> strategy]),
            primaryMetadata)

StoreReplicateAll(w, primaryMetadata, providers, strategy, options, t) ==
    StoreUnlessFailed(IF Len(providers) > 1 /\ options.replicas # Some(0)
                      THEN handleReplication(w, primaryMetadata, Tail(providers), options, t)
                      ELSE w,
                      primaryMetadata, providers, strategy)

\* StorageManager.store(request).
StoreReplicate(w, primaryMetadata, providers, strategy, options, t) ==
    Ok(Emit(IF Len(providers) > 1 /\ options.replicas # Some(0)
            THEN handleReplication(w, primaryMetadata, Tail(providers), options, t)
            ELSE w,
            [type |-> "stored", id |-> primaryMetadata.id, size |-> primaryMetadata.size,
             replicas |-> Len(providers), strategy |-> strategy]),
       primaryMetadata)

store(w, data, strategy, options, t) ==
    LET Primary(providers, primary) ==
            IF ~primary.ok THEN Throw(primary.w, "STORE_ERROR")
            ELSE StoreReplicate([primary.w EXCEPT
                                    !.metadataCache = Put(@, primary.val.id, primary.val)],
                                primary.val, providers, strategy, options, t)
        Via(providers) ==
            IF Len(providers) = 0 THEN Throw(w, "NO_PROVIDERS")
            ELSE Primary(providers, ProviderStore(providers[1], w, data, options, t))
    IN Via(getProvidersForStrategy(w, strategy))

\* StorageManager.delete(id).  The deletes of the providers run in order;
\* DeleteFrom gives [w, results].  delete throws the TypeError of
\* getProvidersForMetadata.
RECURSIVE DeleteFrom(_, _, _)
DeleteFrom(w, providers, id) ==
    LET Cons(result, rest) == [w |-> rest.w, results |-> <<result>> \o rest.results]
        Next1(d) == Cons(d.val, DeleteFrom(d.w, Tail(providers), id))
    IN IF providers = <<>> THEN [w |-> w, results |-> <<>>]
       ELSE Next1(ProviderDelete(Head(providers), w, id))

delete(w, id) ==
    LET Done(d) ==
            IF \E i \in 1..Len(d.results) : d.results[i]
            THEN Ok(Emit([d.w EXCEPT !.metadataCache = Remove(@, id)],
                         [type |-> "deleted", id |-> id]),
                    TRUE)
            ELSE Ok(d.w, FALSE)
        Via(providers) ==
            IF ~providers.ok THEN Throw(w, "TypeError")
            ELSE Done(DeleteFrom(w, providers.val, id))
        Found(metadata) ==
            IF metadata = Undefined THEN Ok(w, FALSE)
            ELSE Via(getProvidersForMetadata(w, metadata[1]))
    IN Found(findMetadata(w, id))

(***************************************************************************)
(* DHTProtocol.distance and KBucket.  A peer id is a string, written as    *)
(* the sequence of its characters; a peer is [id, lastSeen], a bucket is   *)
(* [peers, lastUpdated].                                                   *)
(***************************************************************************)
HexDigits == <<"0", "1", "2", "3", "4", "5", "6", "7", "8", "9", "a", "b", "c", "d", "e", "f">>
HexUpper == <<"0", "1", "2", "3", "4", "5", "6", "7", "8", "9", "A", "B", "C", "D", "E", "F">>

IsHex(c) == \E v \in 1..16 : HexDigits[v] = c \/ HexUpper[v] = c
HexValue(c) == (CHOOSE v \in 1..16 : HexDigits[v] = c \/ HexUpper[v] = c) - 1

\* Buffer.from(s, "hex"): the bytes of the pairs of hex digits of s up to
\* the first pair that is not two hex digits.
RECURSIVE BufferFromHex(_)
BufferFromHex(s) ==
    IF Len(s) < 2 \/ ~IsHex(s[1]) \/ ~IsHex(s[2]) THEN <<>>
    ELSE <<16 * HexValue(s[1]) + HexValue(s[2])>> \o BufferFromHex(SubSeq(s, 3, Len(s)))

\* buffer[i]: undefined past the end of the buffer.
ByteAt(buffer, i) == IF i < Len(buffer) THEN Some(buffer[i + 1]) ELSE Undefined

\* a ^ b and a & b on numbers; undefined counts as 0.
RECURSIVE BitXor(_, _)
BitXor(a, b) ==
    IF a = 0 THEN b
    ELSE IF b = 0 THEN a
    ELSE 2 * BitXor(a \div 2, b \div 2) + (((a % 2) + (b % 2)) % 2)

RECURSIVE BitAnd(_, _)
BitAnd(a, b) ==
    IF a = 0 \/ b = 0 THEN 0
    ELSE 2 * BitAnd(a \div 2, b \div 2) + ((a % 2) * (b % 2))

ToInt32(v) == IF v = Undefined THEN 0 ELSE v[1]

\* DHTProtocol.distance: a buffer of KEY_SIZE bytes, here 1-indexed.
DistanceOf(bufferA, bufferB) ==
    [i \in 1..KEY_SIZE |->
        BitXor(ToInt32(ByteAt(bufferA, i - 1)), ToInt32(ByteAt(bufferB, i - 1))) % 256]

distance(keyA, keyB) == DistanceOf(BufferFromHex(keyA), BufferFromHex(keyB))

\* KBucket.numberOfBuckets: one bucket for each bit of a key.
numberOfBuckets == 8 * KEY_SIZE

\* The first j of 0..7 with (byte & (1 << (7 - j))) !== 0, for byte # 0.
FirstSetBit(byte) ==
    CHOOSE j \in 0..7 :
        /\ BitAnd(byte, 2^(7 - j)) # 0
        /\ \A h \in 0..(j - 1) : BitAnd(byte, 2^(7 - h)) = 0

\* An index that counts the bits of a byte from the least significant one.
BucketIndexFromLsb(d, i) == (i - 1) * 8 + (7 - FirstSetBit(d[i]))

\* The index for the first non-zero byte i (1-indexed) of the distance.
BucketIndexAt(d, i) == (i - 1) * 8 + FirstSetBit(d[i])

BucketIndexOf(d) ==
    IF \E i \in 1..Len(d) : d[i] # 0
    THEN BucketIndexAt(d, CHOOSE i \in 1..Len(d) : d[i] # 0 /\ \A h \in 1..(i - 1) : d[h] = 0)
    ELSE numberOfBuckets - 1

getBucketIndex(nodeId, peerId) == BucketIndexOf(distance(nodeId, peerId))

\* peers.findIndex(p => p.id === peerId): 0-based, -1 when there is none.
FindIndexOfId(peers, peerId) ==
    IF \E i \in 1..Len(peers) : peers[i].id = peerId
    THEN (CHOOSE i \in 1..Len(peers) :
             peers[i].id = peerId /\ \A h \in 1..(i - 1) : peers[h].id # peerId) - 1
    ELSE -1

isPeerStale(peer, t) == (t - peer.lastSeen) > STALE_THRESHOLD

\* The first slot of a bucket that has a stale peer.
findFirstSlot(bucket, t) ==
    IF \E i \in 1..Len(bucket.peers) : isPeerStale(bucket.peers[i], t) THEN 0 ELSE -1

\* A search that falls back on the head of the bucket.
findStalePeerOrHead(bucket, t) ==
    IF \E i \in 1..Len(bucket.peers) : isPeerStale(bucket.peers[i], t)
    THEN Cardinality({i \in 1..Len(bucket.peers) :
            \A h \in 1..i : ~isPeerStale(bucket.peers[h], t)})
    ELSE 0

findStalePeer(bucket, t) ==
    IF \E i \in 1..Len(bucket.peers) : isPeerStale(bucket.peers[i], t)
    THEN (CHOOSE i \in 1..Len(bucket.peers) :
             /\ isPeerStale(bucket.peers[i], t)
             /\ \A h \in 1..(i - 1) : ~isPeerStale(bucket.peers[h], t)) - 1
    ELSE -1

\* A bucket that takes a peer while it has kSize peers or fewer.
addPeerToBucketLoose(bucket, peerId, t) ==
    IF Len(bucket.peers) <= kSize
    THEN [bucket EXCEPT !.peers = Append(@, [id |-> peerId, lastSeen |-> t])]
    ELSE bucket

\* The bucket after addPeerToBucket(bucket, peer) at time t.
addPeerToBucket(bucket, peerId, t) ==
    LET Replaced(staleIndex) ==
            IF staleIndex # -1
            THEN [bucket EXCEPT !.peers[staleIndex + 1] = [id |-> peerId, lastSeen |-> t]]
            ELSE bucket
    IN IF Len(bucket.peers) < kSize
       THEN [bucket EXCEPT !.peers = Append(@, [id |-> peerId, lastSeen |-> t])]
       ELSE Replaced(findStalePeer(bucket, t))

\* addPeer without the look-up of the peer in its bucket.
addPeerUnchecked(bucket, peerId, t) == addPeerToBucket(bucket, peerId, t)

\* The bucket after addPeer(peer) ran up to its return or to its await:
\* bucket.lastUpdated is set at once only when the peer was already there.
addPeerIn(bucket, peerId, t) ==
    LET At(existingPeerIndex) ==
            IF existingPeerIndex # -1
            THEN [bucket EXCEPT !.peers[existingPeerIndex + 1] = [id |-> peerId, lastSeen |-> t],
                                !.lastUpdated = t]
            ELSE addPeerToBucket(bucket, peerId, t)
    IN At(FindIndexOfId(bucket.peers, peerId))

addPeer(buckets, nodeId, peerId, t) ==
    [buckets EXCEPT ![getBucketIndex(nodeId, peerId)] = addPeerIn(@, peerId, t)]

\* peers.splice(peerIndex, 1)
Splice1(peers, peerIndex) ==
    SubSeq(peers, 1, peerIndex) \o SubSeq(peers, peerIndex + 2, Len(peers))

removePeerIn(bucket, peerId, t) ==
    LET At(peerIndex) ==
            IF peerIndex # -1
            THEN [peers |-> Splice1(bucket.peers, peerIndex), lastUpdated |-> t]
            ELSE bucket
    IN At(FindIndexOfId(bucket.peers, peerId))

\* A removePeer that removes nothing.
removePeerNever(buckets, nodeId, peerId, t) == buckets

removePeer(buckets, nodeId, peerId, t) ==
    [buckets EXCEPT ![getBucketIndex(nodeId, peerId)] = removePeerIn(@, peerId, t)]

\* KBucket.getAllPeers: the peers of the buckets, bucket after bucket.
getAllPeers(buckets) ==
    LET RECURSIVE From(_)
        From(b) == IF b = numberOfBuckets THEN <<>> ELSE buckets[b].peers \o From(b + 1)
    IN From(0)

\* KBucket.size
size(buckets) ==
    LET RECURSIVE From(_)
        From(b) == IF b = numberOfBuckets THEN 0 ELSE Len(buckets[b].peers) + From(b + 1)
    IN From(0)

\* A copy of the peers in the order they have.
sortByArrival(peers, targetKey) == peers

\* DHTProtocol.sortByDistance: a sorted copy of the peers.  Compare is
\* Buffer.compare of two distances: -1, 0 or 1 by the first byte in which
\* they differ.  Array.prototype.sort is stable: a peer goes behind the
\* peers before it that are not farther from the target than it is.
RECURSIVE sortByDistance(_, _)
sortByDistance(peers, targetKey) ==
    LET Compare(a, b) ==
            IF a = b THEN 0
            ELSE IF LET i == CHOOSE i \in 1..Len(a) :
                                 a[i] # b[i] /\ \A h \in 1..(i - 1) : a[h] = b[h]
                    IN a[i] < b[i]
                 THEN -1
                 ELSE 1
        InsertAt(sorted, peer, n) ==
            SubSeq(sorted, 1, n) \o <<peer>> \o SubSeq(sorted, n + 1, Len(sorted))
        Insert(sorted, peer) ==
            InsertAt(sorted, peer,
                     Cardinality({i \in 1..Len(sorted) :
                         Compare(distance(sorted[i].id, targetKey),
                                 distance(peer.id, targetKey)) <= 0}))
    IN IF peers = <<>> THEN <<>>
       ELSE Insert(sortByDistance(SubSeq(peers, 1, Len(peers) - 1), targetKey),
                   peers[Len(peers)])

\* KBucket.getClosestPeers(key, count)
getClosestPeers(buckets, key, count) ==
    JsSlice(sortByDistance(getAllPeers(buckets), key), 0, count)

\* DHTProtocol.createMessage(dhtType, sender, {key}) at time t: the key is
\* the key it is given.
createMessage(dhtType, sender, key, t) ==
    [dhtType |-> Some(dhtType), protocol |-> Some("dht"), version |-> Some("1.0.0"),
     payload |-> [sender |-> Some(sender), key |-> Some(key), timestamp |-> t]]

\* DHTProtocol.validateMessage(message) at time t.  Not is JavaScript's !s
\* for an optional string; a key is the sequence of its characters, and the
\* 64 of /^[0-9a-f]{64}$/ is the number of hex digits of a key of KEY_SIZE
\* bytes; payload.key && ... skips the test of an empty key.
validateMessage(message, t) ==
    LET Not(str) == str = Undefined \/ str[1] = ""
        TestKey(key) ==
            /\ Len(key) = 2 * KEY_SIZE
            /\ \A i \in 1..Len(key) : \E v \in 1..16 : HexDigits[v] = key[i]
        Abs(n) == IF n < 0 THEN 0 - n ELSE n
    IN IF Not(message.dhtType) \/ Not(message.payload.sender) \/ Not(message.protocol)
          \/ Not(message.version)
       THEN FALSE
       ELSE IF /\ message.payload.key # Undefined
               /\ message.payload.key[1] # <<>>
               /\ ~TestKey(message.payload.key[1])
       THEN FALSE
       ELSE IF Abs(t - message.payload.timestamp) > MAX_TIME_DIFF
       THEN FALSE
       ELSE TRUE

(***************************************************************************)
(* DHTNetwork (src/dht/network.ts).  The node is a record d: connected,    *)
(* buckets (its routing table), totalQueries (stats.dht.totalQueries),     *)
(* errorListener (a listener of 'error' is registered), transport, net     *)
(* (what the peers of the network hold, peer id -> key -> value), sent     *)
(* (the messages the running call has sent) and found (what                *)
(* findClosestPeers returned to the running call).  null is Undefined.     *)
(*                                                                         *)
(* sendMessage answers every message itself with data: null and value:     *)
(* null (transport "stub"), unless a peer network is installed (transport  *)
(* "peers").  The peer network is not part of the sources: its peers are   *)
(* modelled from the protocol of section 4.4 of the specification.         *)
(***************************************************************************)
\* The ids of the peers that every peer of the network returns to FIND_NODE.
NetPeers == <<<<"e", "5">>, <<"2", "5">>>>

\* A peer of the network answers a message; a peer of failing does not.
\* The peers of a FIND_NODE response are objects made from the response.
PeerNetworkSend(d, dhtType, key, value, peer, failing) ==
    IF peer.id \in failing THEN Throw(d, "RPC_FAILED")
    ELSE IF dhtType = "FIND_NODE"
    THEN Ok(d, [data |-> Some([peers |-> [i \in 1..Len(NetPeers) |->
                                             [id |-> NetPeers[i], lastSeen |-> 0,
                                              from |-> peer.id]]]),
                value |-> Undefined])
    ELSE IF dhtType = "FIND_VALUE"
    THEN Ok(d, [data |-> Undefined,
                value |-> IF key \in DOMAIN d.net[peer.id] THEN Some(d.net[peer.id][key])
                          ELSE Undefined])
    ELSE IF dhtType = "STORE"
    THEN Ok([d EXCEPT !.net[peer.id] = IF value = Undefined THEN Remove(@, key)
                                       ELSE Put(@, key, value[1])],
            [data |-> Undefined, value |-> Undefined])
    ELSE Ok(d, [data |-> Undefined, value |-> Undefined])

\* DHTNetwork.sendMessage(message, peer)
sendMessage(d, dhtType, key, value, peer, failing) ==
    IF d.transport = "peers"
    THEN PeerNetworkSend([d EXCEPT !.sent = Append(@, [dhtType |-> dhtType, to |-> peer.id,
                                                       key |-> key])],
                         dhtType, key, value, peer, failing)
    ELSE Ok([d EXCEPT !.sent = Append(@, [dhtType |-> dhtType, to |-> peer.id, key |-> key])],
            [data |-> Undefined, value |-> Undefined])

\* DHTNetwork.findClosestPeers(key); config.dht.kBucketSize is kSize.
\* AddAll is results.add(p) for every peer p of a response: a Set holds an
\* object once.  this.emit('error', error) in the catch block throws the
\* error when no listener of 'error' is registered.  The call keeps the
\* peers returned in found.
findClosestPeers(d, key, failing) ==
    LET RECURSIVE AddAll(_, _), From(_, _, _)
        AddAll(results, peers) ==
            IF peers = <<>> THEN results
            ELSE AddAll(IF \E i \in 1..Len(results) : results[i] = Head(peers) THEN results
                        ELSE Append(results, Head(peers)),
                        Tail(peers))
        Answered(r, closestPeers, results) ==
            IF ~r.ok
            THEN IF d.errorListener THEN From(r.w, Tail(closestPeers), results)
                 ELSE Throw(r.w, r.err)
            ELSE From(r.w, Tail(closestPeers),
                      IF r.val.data # Undefined THEN AddAll(results, r.val.data[1].peers)
                      ELSE results)
        From(d1, closestPeers, results) ==
            IF closestPeers = <<>> THEN Ok(d1, results)
            ELSE Answered(sendMessage(d1, "FIND_NODE", key, Undefined, Head(closestPeers),
                                      failing),
                          closestPeers, results)
        Sliced(w, peers) == Ok([w EXCEPT !.found = Some(peers)], peers)
        Sorted(r) ==
            IF ~r.ok THEN r
            ELSE Sliced(r.w, JsSlice(sortByDistance(r.val, key), 0, kSize))
    IN Sorted(From(d, getClosestPeers(d.buckets, key, kSize), <<>>))

\* Promise.all(peers.map(peer => this.sendMessage(message, peer))): every
\* message is sent; the first failure is the failure of the whole.
RECURSIVE SendToAll(_, _, _, _, _, _)
SendToAll(d, peers, dhtType, key, value, failing) ==
    LET Rest(r, rest) == IF r.ok THEN rest ELSE Throw(rest.w, r.err)
        Sent(r) == Rest(r, SendToAll(r.w, Tail(peers), dhtType, key, value, failing))
    IN IF peers = <<>> THEN Ok(d, Undefined)
       ELSE Sent(sendMessage(d, dhtType, key, value, Head(peers), failing))

\* A put that does not look at this.connected.
putUnguarded(d, key, value, failing) ==
    LET Stored(peers) ==
            IF ~peers.ok THEN peers
            ELSE SendToAll(peers.w, peers.val, "STORE", key, Some(value), failing)
    IN Stored(findClosestPeers(d, key, failing))

\* DHTNetwork.put(key, value)
put(d, key, value, failing) ==
    LET Stored(peers) ==
            IF ~peers.ok THEN peers
            ELSE SendToAll(peers.w, peers.val, "STORE", key, Some(value), failing)
    IN IF ~d.connected THEN Throw(d, "NOT_STARTED")
       ELSE Stored(findClosestPeers(d, key, failing))

\* DHTNetwork.get(key): the first truthy value of the peers found.
get(d, key, failing) ==
    LET RECURSIVE From(_, _)
        Answered(r, peers) ==
            IF ~r.ok
            THEN IF d.errorListener THEN From(r.w, Tail(peers))
                 ELSE Throw(r.w, r.err)
            ELSE IF r.val.value # Undefined /\ r.val.value[1] # ""
            THEN Ok(r.w, r.val.value[1])
            ELSE From(r.w, Tail(peers))
        From(d1, peers) ==
            IF peers = <<>> THEN Throw(d1, "NOT_FOUND")
            ELSE Answered(sendMessage(d1, "FIND_VALUE", key, Undefined, Head(peers), failing),
                          peers)
        Queried(peers) == IF ~peers.ok THEN peers ELSE From(peers.w, peers.val)
    IN IF ~d.connected THEN Throw(d, "NOT_STARTED")
       ELSE Queried(findClosestPeers(d, key, failing))

\* DHTNetwork.delete(key): a STORE of null, then stats.dht.totalQueries++.
dhtDelete(d, key, failing) ==
    LET Notified(r) ==
            IF ~r.ok THEN r
            ELSE Ok([r.w EXCEPT !.totalQueries = @ + 1], Undefined)
        Deleted(peers) ==
            IF ~peers.ok THEN peers
            ELSE Notified(SendToAll(peers.w, peers.val, "STORE", key, Undefined, failing))
    IN IF ~d.connected THEN Throw(d, "NOT_STARTED")
       ELSE Deleted(findClosestPeers(d, key, failing))

\* this.emit(type, id) of the DHT node: a listener runs at once; connected
\* and inTable tell whether it then finds the node connected and the peer
\* id in the routing table.
DnEmit(d, type, id) ==
    [d EXCEPT !.events = Append(@, [type |-> type, id |-> id, connected |-> d.connected,
                                    inTable |-> \E i \in 1..size(d.buckets) :
                                                   getAllPeers(d.buckets)[i].id = id])]

\* A start that emits 'started' first.
startEmitsFirst(d) ==
    IF d.connected THEN Throw(d, "ALREADY_STARTED")
    ELSE Ok([DnEmit(d, "started", Undefined) EXCEPT !.connected = TRUE,
                                                     !.timers = @ + 1], Undefined)

\* DHTNetwork.start() of a node without bootstrap peers and with
\* config.discovery.bootstrap set: startDiscovery() sets an interval and
\* keeps no handle of it.
start(d) ==
    IF d.connected THEN Throw(d, "ALREADY_STARTED")
    ELSE Ok(DnEmit([d EXCEPT !.connected = TRUE, !.timers = @ + 1], "started", Undefined),
            Undefined)

(***************************************************************************)
(* ContentDiscovery (src/discovery/content.ts) of the node whose           *)
(* network.getNodeId() is node.  A content record is kept in the DHT under *)
(* `content:${contentId}` as JSON, which gives back the record it was made *)
(* from: its fields are strings, numbers and arrays of them.               *)
(***************************************************************************)
ContentKey(contentId) == <<"content", contentId>>

\* ContentDiscovery.getContentById(contentId): the record; the JSON of a
\* record is not the empty string, so `data ? ... : null` is never null.
getContentById(w, contentId) ==
    LET Parsed(r) == IF ~r.ok THEN r ELSE Ok(r.w, Some(r.val))
    IN Parsed(DhtGet(w, ContentKey(contentId)))

\* ContentDiscovery.publishContent(data, metadata) at time t.
publishContent(w, node, data, t) ==
    LET Info(contentId, chunks) ==
            [contentId |-> contentId,
             providers |-> <<[nodeId |-> node, lastSeen |-> t]>>,
             chunks |-> [i \in 1..Len(chunks) |->
                           [id |-> chunks[i].checksum, size |-> chunks[i].size,
                            checksum |-> chunks[i].checksum, providers |-> <<node>>]],
             created |-> t, updated |-> t, totalSize |-> Len(data)]
        Indexed(r, info) ==
            IF ~r.ok THEN Throw(w, "PUBLISH_FAILED") ELSE Ok(r.w, info)
        Stored(r, info) ==
            IF ~r.ok THEN Throw(w, "PUBLISH_FAILED")
            ELSE Indexed(DhtPut(r.w, <<"index:type", info.contentId>>, info.contentId), info)
        Published(info) == Stored(DhtPut(w, ContentKey(info.contentId), info), info)
    IN Published(Info(calculateChecksum(data), split(data, ChunkSize)))

\* ContentDiscovery.becomeProvider(contentId) at time t.
becomeProvider(w, node, contentId, t) ==
    LET Updated(content) ==
            DhtPut(w, ContentKey(contentId),
                   [content EXCEPT !.providers = Append(@, [nodeId |-> node, lastSeen |-> t]),
                                   !.updated = t])
        Found(r) ==
            IF ~r.ok THEN r
            ELSE IF r.val = Undefined THEN Throw(w, "CONTENT_NOT_FOUND")
            ELSE Updated(r.val[1])
    IN Found(getContentById(w, contentId))

(***************************************************************************)
(* SearchIndex (src/search/index.ts).  An index key holds the JSON of an   *)
(* array of entries [key, value, score, timestamp], value being a content  *)
(* id; JSON gives back the array it was made from, and the JSON of an      *)
(* array is not the empty string.                                          *)
(***************************************************************************)
\* An add that appends the entry and no more.
appendToEntries(entries, entry) == Append(entries, entry)

\* addToIndex from the parsed array to the array it puts: the entry takes
\* the place of the one of its content id or is pushed, the array is
\* sorted (Array.prototype.sort is stable) and cut to MaxIndexEntries.
addToEntries(entries, entry) ==
    LET RECURSIVE Insert(_, _), Sort(_)
        Compare(a, b) == IF b.score - a.score # 0 THEN b.score - a.score
                         ELSE b.timestamp - a.timestamp
        Insert(sorted, e) ==
            IF sorted = <<>> THEN <<e>>
            ELSE IF Compare(e, Head(sorted)) < 0 THEN <<e>> \o sorted
            ELSE <<Head(sorted)>> \o Insert(Tail(sorted), e)
        Sort(es) ==
            IF es = <<>> THEN <<>>
            ELSE Insert(Sort(SubSeq(es, 1, Len(es) - 1)), es[Len(es)])
        Placed(existingIndex) ==
            IF existingIndex # 0 THEN [entries EXCEPT ![existingIndex] = entry]
            ELSE Append(entries, entry)
    IN JsSlice(Sort(Placed(IF \E i \in 1..Len(entries) : entries[i].value = entry.value
                           THEN CHOOSE i \in 1..Len(entries) :
                                   /\ entries[i].value = entry.value
                                   /\ \A j \in 1..(i - 1) : entries[j].value # entry.value
                           ELSE 0)),
               0, MaxIndexEntries)

\* SearchIndex.addToIndex(entry) up to its put: the array it will put.
addToIndexGet(w, entry) ==
    LET Read(r) == IF ~r.ok THEN Throw(w, "INDEX_UPDATE_ERROR")
                   ELSE Ok(r.w, addToEntries(r.val, entry))
    IN Read(DhtGet(w, entry.key))

\* SearchIndex.addToIndex(entry)
addToIndex(w, entry) ==
    LET Written(r) == IF ~r.ok THEN Throw(w, "INDEX_UPDATE_ERROR") ELSE r
        Read(r) == IF ~r.ok THEN r ELSE Written(DhtPut(r.w, entry.key, r.val))
    IN Read(addToIndexGet(w, entry))

(***************************************************************************)
(* State.                                                                  *)
(***************************************************************************)
VARIABLES
    fsMeta,              \* LocalStorageProvider: metadata files, id -> metadata
    fsChunks,            \* LocalStorageProvider: chunk files, path -> bytes
    dht,                 \* values the DHT holds, key -> value
    connected,           \* DHTNetwork.connected
    localChunks,         \* P2PStorageProvider.localChunks
    peerChunks,          \* P2PStorageProvider.peerChunks
    stats,               \* the stats of the three providers
    smProviders,         \* StorageManager.providers (names, in map order)
    smReplicationFactor, \* StorageManager.config.replicationFactor (optional)
    metadataCache,       \* StorageManager.metadataCache
    events,              \* events the last storage manager call emitted
    now,                 \* Date.now()
    nOps,                \* number of storage manager calls made
    lastCall,            \* the last storage manager call and its outcome
    stored,              \* id -> data of the artifacts store returned and
                         \* delete was not called for since
    kbBuckets,           \* KBucket.buckets, 0-indexed
    kbPending,           \* buckets of the addPeer calls suspended at their await
    kbLast,              \* the last routing table call: the bucket it met, and when
    dnNet,               \* what the peers of the network hold, peer id -> key -> value
    dnTransport,         \* "stub": sendMessage answers itself; "peers": a peer network
    dnErrorListener,     \* a listener of 'error' is registered on the DHTNetwork
    dnTotalQueries,      \* DHTNetwork.stats.dht.totalQueries
    dnStop,              \* the stop() call that is suspended at an await, if any
    dnLast,              \* the last such call and its outcome
    bridge,              \* the TenzroNetworkBridge: connected, the connect calls in
                         \* progress, a disconnect in progress, and its last call
    dnTimers,            \* intervals of startDiscovery() that are set (none is cleared)
    siPending,           \* addToIndex calls suspended at their put: what they will put
    node                 \* the C0reNode: isRunning, the start and stop calls in
                         \* progress, and its last call

smVars == <<fsMeta, fsChunks, dht, connected, localChunks, peerChunks, stats, smProviders,
            smReplicationFactor, metadataCache, events, nOps, lastCall, stored>>

kbVars == <<kbBuckets, kbPending, kbLast>>

dnVars == <<dnNet, dnTransport, dnErrorListener, dnTotalQueries, dnStop, dnLast, dnTimers>>

vars == <<smVars, kbVars, dnVars, bridge, siPending, node, now>>

World ==
    [fsMeta |-> fsMeta, fsChunks |-> fsChunks, dht |-> dht, connected |-> connected,
     localChunks |-> localChunks, peerChunks |-> peerChunks, stats |-> stats,
     providers |-> smProviders, replicationFactor |-> smReplicationFactor,
     metadataCache |-> metadataCache, events |-> events]

\* The state a call leaves behind; the configuration never changes.
Becomes(w) ==
    /\ fsMeta' = w.fsMeta
    /\ fsChunks' = w.fsChunks
    /\ dht' = w.dht
    /\ localChunks' = w.localChunks
    /\ peerChunks' = w.peerChunks
    /\ stats' = w.stats
    /\ metadataCache' = w.metadataCache
    /\ events' = w.events
    /\ UNCHANGED <<connected, smProviders, smReplicationFactor>>

\* The configurations: every non-empty choice of enabled providers.
ProviderConfigs ==
    {SelectSeq(ProviderNames, LAMBDA p : p \in S) : S \in (SUBSET {"local", "network", "p2p"}) \ {{}}}

ReplicaOptions == {Undefined} \cup {Some(n) : n \in 0..MaxReplicas}

\* The state after new StorageManager(config) with the given providers
\* enabled, over empty storage.
SMConstructed(providers, isConnected, replicationFactor) ==
    /\ fsMeta = EmptyMap
    /\ fsChunks = EmptyMap
    /\ dht = EmptyMap
    /\ connected = isConnected
    /\ localChunks = EmptyMap
    /\ peerChunks = EmptyMap
    /\ stats = [local |-> ZeroStats, network |-> ZeroStats, p2p |-> ZeroStats]
    /\ smProviders = providers
    /\ smReplicationFactor = replicationFactor
    /\ metadataCache = EmptyMap
    /\ events = <<>>
    /\ nOps = 0
    /\ lastCall = [op |-> "none", arg |-> <<>>, at |-> 0, ok |-> TRUE, val |-> Undefined,
                   err |-> ""]
    /\ stored = EmptyMap

\* The node's own id and the ids of the peers it hears of.
SelfId == <<"a", "5">>
PeerIds == {<<"a", "5">>, <<"e", "5">>, <<"2", "5">>, <<"3", "5">>, <<"6", "5">>}

\* The state after new KBucket(nodeId, kSize, numberOfBuckets).
KBConstructed ==
    /\ kbBuckets = [b \in 0..(numberOfBuckets - 1) |-> [peers |-> <<>>, lastUpdated |-> 0]]
    /\ kbPending = <<>>
    /\ kbLast = [op |-> "none", id |-> <<>>, before |-> <<>>, at |-> 0]

\* The state after new DHTNetwork(config, nodeId), with its transport.
DNConstructed(transport) ==
    /\ dnNet = [id \in PeerIds |-> EmptyMap]
    /\ dnTransport = transport
    /\ dnErrorListener = FALSE
    /\ dnTotalQueries = 0
    /\ dnStop = [pc |-> "idle", peers |-> <<>>]
    /\ dnLast = [op |-> "none"]
    /\ dnTimers = 0

SMInit ==
    /\ \E providers \in ProviderConfigs, isConnected \in BOOLEAN,
          replicationFactor \in {Undefined, Some(MaxReplicas)} :
          SMConstructed(providers, isConnected, replicationFactor)
    /\ KBConstructed
    /\ DNConstructed("stub")
    /\ now = 0
    /\ bridge = [connected |-> FALSE, connecting |-> 0, disconnecting |-> FALSE, retries |-> 0,
                 last |-> [op |-> "none"]]
    /\ siPending = <<>>
    /\ node = [isRunning |-> FALSE, starting |-> 0, stopping |-> FALSE, last |-> [op |-> "none"]]

Called(op, arg, r) ==
    [op |-> op, arg |-> arg, at |-> now, ok |-> r.ok, val |-> r.val, err |-> r.err]

\* A caller calls StorageManager.store({data, strategy, options: {replicas}}).
SMStore(data, strategy, replicas) ==
    /\ nOps < MaxOps
    /\ Cardinality(DOMAIN stored) < MaxStored
    /\ \E r \in {store([World EXCEPT !.events = <<>>], data, strategy,
                      [replicas |-> replicas], now)} :
          /\ Becomes(r.w)
          /\ lastCall' = Called("store", <<data, strategy, replicas>>, r)
          /\ stored' = IF r.ok THEN Put(stored, r.val.id, data) ELSE stored
    /\ nOps' = nOps + 1
    /\ UNCHANGED <<siPending, node, now, bridge, kbVars, dnVars>>

\* The ids a caller can know: those of the stored artifacts.
KnownIds == DOMAIN fsMeta \cup {k[2] : k \in DOMAIN dht} \cup DOMAIN metadataCache

\* A caller calls StorageManager.retrieve(id, {preferredProvider}).
SMRetrieve(id, preferredProvider) ==
    /\ nOps < MaxOps
    /\ \E r \in {retrieve([World EXCEPT !.events = <<>>], id, preferredProvider)} :
          /\ Becomes(r.w)
          /\ lastCall' = Called("retrieve", <<id, preferredProvider>>, r)
    /\ nOps' = nOps + 1
    /\ UNCHANGED <<siPending, node, now, bridge, stored, kbVars, dnVars>>

\* A caller calls StorageManager.delete(id).
SMDelete(id) ==
    /\ nOps < MaxOps
    /\ \E r \in {delete([World EXCEPT !.events = <<>>], id)} :
          /\ Becomes(r.w)
          /\ lastCall' = Called("delete", <<id>>, r)
    /\ stored' = Remove(stored, id)
    /\ nOps' = nOps + 1
    /\ UNCHANGED <<siPending, node, now, bridge, kbVars, dnVars>>

\* Time passes.
SMTick ==
    /\ now < MaxClock
    /\ now' = now + 1
    /\ UNCHANGED <<siPending, node, smVars, kbVars, dnVars, bridge>>

PreferredOptions == {Undefined} \cup {Some(p) : p \in {"local", "network", "p2p"}}

SMNext ==
    \/ \E data \in Buffers, strategy \in Strategies, replicas \in ReplicaOptions :
          SMStore(data, strategy, replicas)
    \/ \E id \in KnownIds, preferredProvider \in PreferredOptions :
          SMRetrieve(id, preferredProvider)
    \/ \E id \in KnownIds : SMDelete(id)
    \/ SMTick

\* The storage manager and its providers.
SpecStorage == SMInit /\ [][SMNext]_vars

\* Another process rewrites a chunk file of the local provider's directory:
\* fs.readFile in retrieve returns what the disk then holds.
FSWrite(path, bytes) ==
    /\ path \in DOMAIN fsChunks
    /\ fsChunks[path] # bytes
    /\ fsChunks' = [fsChunks EXCEPT ![path] = bytes]
    /\ UNCHANGED <<siPending, node, fsMeta, dht, connected, localChunks, peerChunks, stats, smProviders,
                   smReplicationFactor, metadataCache, events, nOps, lastCall, stored,
                   now, bridge, kbVars, dnVars>>

\* A caller calls LocalStorageProvider.retrieve(id).
LSRetrieve(id) ==
    /\ nOps < MaxOps
    /\ \E i \in 1..Len(smProviders) : smProviders[i] = "local"
    /\ \E r \in {LocalRetrieve([World EXCEPT !.events = <<>>], id)} :
          /\ Becomes(r.w)
          /\ lastCall' = Called("local.retrieve", <<id>>, r)
    /\ nOps' = nOps + 1
    /\ UNCHANGED <<siPending, node, now, bridge, stored, kbVars, dnVars>>

\* The local provider over a directory that other processes write to.
SpecLocal ==
    SMInit /\ [][\/ \E data \in Buffers, strategy \in {"local-only"}, replicas \in {Undefined} :
                       SMStore(data, strategy, replicas)
                 \/ \E path \in DOMAIN fsChunks, bytes \in Buffers : FSWrite(path, bytes)
                 \/ \E id \in KnownIds : LSRetrieve(id)
                 \/ SMTick]_vars

\* Number of calls made on the providers themselves.
MaxCalls == 3

\* The artifacts that provider p has stored and that were not deleted since.
LiveIds(p) == {k[2] : k \in {k \in DOMAIN stored : k[1] = p}}

\* A caller calls store(data) of the network or of the P2P provider.
PVStore(p, data) ==
    /\ nOps < MaxCalls
    /\ \E i \in 1..Len(smProviders) : smProviders[i] = p
    /\ \E r \in {ProviderStore(p, [World EXCEPT !.events = <<>>], data,
                                [replicas |-> Undefined], now)} :
          /\ Becomes(r.w)
          /\ lastCall' = Called("provider.store", <<p, data>>, r)
          /\ stored' = IF r.ok THEN Put(stored, <<p, r.val.id>>, data) ELSE stored
    /\ nOps' = nOps + 1
    /\ UNCHANGED <<siPending, node, now, bridge, kbVars, dnVars>>

\* A caller calls retrieve(id) of the provider.
PVRetrieve(p, id) ==
    /\ nOps < MaxCalls
    /\ \E i \in 1..Len(smProviders) : smProviders[i] = p
    /\ \E r \in {ProviderRetrieve(p, [World EXCEPT !.events = <<>>], id)} :
          /\ Becomes(r.w)
          /\ lastCall' = Called("provider.retrieve", <<p, id>>, r)
    /\ nOps' = nOps + 1
    /\ UNCHANGED <<siPending, node, now, bridge, stored, kbVars, dnVars>>

\* A caller calls delete(id) of the provider; the artifact counts as deleted
\* when delete returned true.
PVDelete(p, id) ==
    /\ nOps < MaxCalls
    /\ \E i \in 1..Len(smProviders) : smProviders[i] = p
    /\ \E r \in {ProviderDelete(p, [World EXCEPT !.events = <<>>], id)} :
          /\ Becomes(r.w)
          /\ lastCall' = Called("provider.delete", <<p, id>>, r)
          /\ stored' = IF r.val = TRUE /\ <<p, id>> \in DOMAIN stored
                       THEN Remove(stored, <<p, id>>) ELSE stored
    /\ nOps' = nOps + 1
    /\ UNCHANGED <<siPending, node, now, bridge, kbVars, dnVars>>

\* The network and the P2P provider, called by a client of their own.
SpecProviders ==
    SMInit /\ [][\/ \E p \in {"network", "p2p"}, data \in Buffers : PVStore(p, data)
                 \/ \E p \in {"network", "p2p"}, id \in KnownIds : PVRetrieve(p, id)
                 \/ \E p \in {"network", "p2p"}, id \in KnownIds : PVDelete(p, id)
                 \/ SMTick]_vars

\* The node calls ContentDiscovery.publishContent(data, metadata).
CDPublishContent(nodeId, data) ==
    /\ nOps < MaxOps
    /\ \E r \in {publishContent([World EXCEPT !.events = <<>>], nodeId, data, now)} :
          /\ Becomes(r.w)
          /\ lastCall' = Called("publishContent", <<nodeId, data>>, r)
    /\ nOps' = nOps + 1
    /\ UNCHANGED <<siPending, node, now, bridge, stored, kbVars, dnVars>>

\* The node calls ContentDiscovery.becomeProvider(contentId).
CDBecomeProvider(nodeId, contentId) ==
    /\ nOps < MaxOps
    /\ \E r \in {becomeProvider([World EXCEPT !.events = <<>>], nodeId, contentId, now)} :
          /\ Becomes(r.w)
          /\ lastCall' = Called("becomeProvider", <<nodeId, contentId>>, r)
    /\ nOps' = nOps + 1
    /\ UNCHANGED <<siPending, node, now, bridge, stored, kbVars, dnVars>>

\* The content discovery of two nodes over one DHT.
SpecContent ==
    SMInit /\ [][\/ \E nodeId \in {"a5", "e5"}, data \in Buffers : CDPublishContent(nodeId, data)
                 \/ \E nodeId \in {"a5", "e5"}, data \in Buffers :
                       CDBecomeProvider(nodeId, calculateChecksum(data))
                 \/ SMTick]_vars

\* A client of the DHT puts the empty array under an index key.
SIPutEmptyIndex(key) ==
    /\ key \notin DOMAIN dht
    /\ \E r \in {DhtPut(World, key, <<>>)} :
          /\ Becomes(r.w)
          /\ lastCall' = Called("put", <<key>>, r)
    /\ UNCHANGED <<siPending, node, nOps, now, bridge, stored, kbVars, dnVars>>

\* A caller calls addToIndex(entry) when no other call is in progress.
SIAddToIndex(key, value, score) ==
    /\ siPending = <<>>
    /\ \E entry \in {[key |-> key, value |-> value, score |-> score, timestamp |-> now]} :
       \E r \in {addToIndex(World, entry)} :
          /\ Becomes(r.w)
          /\ lastCall' = Called("addToIndex", <<entry>>, r)
                         @@ [before |-> IF key \in DOMAIN dht THEN Some(dht[key])
                                        ELSE Undefined]
    /\ UNCHANGED <<siPending, node, nOps, now, bridge, stored, kbVars, dnVars>>

\* addToIndex(entry) up to its put.
SIAddToIndexGet(key, value, score) ==
    /\ Len(siPending) < MaxAdds
    /\ \E entry \in {[key |-> key, value |-> value, score |-> score, timestamp |-> now]} :
       \E r \in {addToIndexGet(World, entry)} :
          /\ siPending' = IF r.ok THEN Append(siPending, [entry |-> entry, entries |-> r.val])
                          ELSE siPending
          /\ lastCall' = Called("addToIndex.get", <<entry>>, r)
    /\ UNCHANGED <<fsMeta, fsChunks, dht, connected, localChunks, peerChunks, stats,
                   smProviders, smReplicationFactor, metadataCache, events, nOps, stored,
                   node, now, bridge, kbVars, dnVars>>

\* The put of a suspended addToIndex, and its return.
SIAddToIndexPut(i) ==
    /\ i \in 1..Len(siPending)
    /\ \E r \in {DhtPut(World, siPending[i].entry.key, siPending[i].entries)} :
          /\ Becomes(r.w)
          /\ lastCall' = Called("addToIndex.put", <<siPending[i].entry>>, r)
    /\ siPending' = [j \in 1..(Len(siPending) - 1) |->
                        IF j < i THEN siPending[j] ELSE siPending[j + 1]]
    /\ UNCHANGED <<node, nOps, now, bridge, stored, kbVars, dnVars>>

\* The search index under calls made one after the other.
SpecIndex ==
    SMInit /\ [][\/ \E key \in {"index:tag:a"} : SIPutEmptyIndex(key)
                 \/ \E key \in {"index:tag:a"}, value \in {"c1", "c2", "c3"},
                       score \in 1..2 : SIAddToIndex(key, value, score)
                 \/ SMTick]_vars

\* The search index under calls that overlap.
SpecIndexOverlap ==
    SMInit /\ [][\/ \E key \in {"index:tag:a"} : SIPutEmptyIndex(key)
                 \/ \E key \in {"index:tag:a"}, value \in {"c1", "c2"}, score \in {1} :
                       SIAddToIndexGet(key, value, score)
                 \/ \E i \in 1..MaxAdds : SIAddToIndexPut(i)]_vars

(***************************************************************************)
(* The routing table.  The code of addPeer up to its await, and all of     *)
(* removePeer, run without interruption; the assignment to                 *)
(* bucket.lastUpdated after the await runs later, in the order of the      *)
(* calls, and other calls can run in between.                              *)
(***************************************************************************)
KBInit ==
    /\ SMConstructed(<<>>, FALSE, Undefined)
    /\ KBConstructed
    /\ DNConstructed("stub")
    /\ now = 0
    /\ bridge = [connected |-> FALSE, connecting |-> 0, disconnecting |-> FALSE, retries |-> 0,
                 last |-> [op |-> "none"]]
    /\ siPending = <<>>
    /\ node = [isRunning |-> FALSE, starting |-> 0, stopping |-> FALSE, last |-> [op |-> "none"]]

KBCalled(op, peerId, bucketIndex) ==
    [op |-> op, id |-> peerId, before |-> kbBuckets[bucketIndex].peers, at |-> now]

\* addPeer(peer) for a peer of a bucket: it returns without suspending.
KBAddKnownPeer(peerId) ==
    \E bucketIndex \in {getBucketIndex(SelfId, peerId)} :
        /\ FindIndexOfId(kbBuckets[bucketIndex].peers, peerId) # -1
        /\ kbBuckets' = addPeer(kbBuckets, SelfId, peerId, now)
        /\ kbLast' = KBCalled("addPeer", peerId, bucketIndex)
        /\ UNCHANGED <<siPending, node, kbPending, smVars, dnVars, now, bridge>>

\* addPeer(peer) for a new peer, up to the await of addPeerToBucket.
KBAddNewPeer(peerId) ==
    \E bucketIndex \in {getBucketIndex(SelfId, peerId)} :
        /\ FindIndexOfId(kbBuckets[bucketIndex].peers, peerId) = -1
        /\ Len(kbPending) < MaxPending
        /\ kbBuckets' = addPeer(kbBuckets, SelfId, peerId, now)
        /\ kbPending' = Append(kbPending, bucketIndex)
        /\ kbLast' = KBCalled("addPeer", peerId, bucketIndex)
        /\ UNCHANGED <<siPending, node, smVars, dnVars, now, bridge>>

\* The rest of the oldest suspended addPeer: bucket.lastUpdated = Date.now().
KBAddPeerResume ==
    /\ kbPending # <<>>
    /\ kbBuckets' = [kbBuckets EXCEPT ![Head(kbPending)].lastUpdated = now]
    /\ kbPending' = Tail(kbPending)
    /\ UNCHANGED <<siPending, node, kbLast, smVars, dnVars, now, bridge>>

\* removePeer(peerId).
KBRemovePeer(peerId) ==
    \E bucketIndex \in {getBucketIndex(SelfId, peerId)} :
        /\ kbBuckets' = removePeer(kbBuckets, SelfId, peerId, now)
        /\ kbLast' = KBCalled("removePeer", peerId, bucketIndex)
        /\ UNCHANGED <<siPending, node, kbPending, smVars, dnVars, now, bridge>>

\* getClosestPeers(key, count)
KBGetClosestPeers(key, count) ==
    /\ kbLast' = [op |-> "getClosestPeers", id |-> key, before |-> <<>>, at |-> now,
                  count |-> count, closest |-> getClosestPeers(kbBuckets, key, count)]
    /\ UNCHANGED <<siPending, node, kbBuckets, kbPending, smVars, dnVars, now, bridge>>

\* Time passes.
KBTick ==
    /\ now < MaxTime
    /\ now' = now + 1
    /\ UNCHANGED <<siPending, node, smVars, kbVars, dnVars, bridge>>

KBNext ==
    \/ \E peerId \in PeerIds : KBAddKnownPeer(peerId)
    \/ \E peerId \in PeerIds : KBAddNewPeer(peerId)
    \/ KBAddPeerResume
    \/ \E peerId \in PeerIds : KBRemovePeer(peerId)
    \/ KBTick

\* The routing table.
SpecKBucket == KBInit /\ [][KBNext]_vars

RTNext ==
    \/ \E peerId \in PeerIds : KBAddKnownPeer(peerId)
    \/ \E peerId \in PeerIds : KBAddNewPeer(peerId)
    \/ KBAddPeerResume
    \/ \E peerId \in PeerIds : KBRemovePeer(peerId)
    \/ \E key \in {<<"2", "4">>, <<"e", "4">>}, count \in 0..(kSize + 1) :
          KBGetClosestPeers(key, count)

\* The routing table and its look-ups, at one instant.
SpecRouting == KBInit /\ [][RTNext]_vars

(***************************************************************************)
(* The DHT node.  Its callers reach the routing table through              *)
(* getRoutingTable().  A call of put, get or delete is one step: the       *)
(* answers to its messages come in before the next call.  stop() is        *)
(* suspended twice: at the await of getAllPeers and at the await of the    *)
(* disconnects, and calls made meanwhile run in between.                   *)
(***************************************************************************)
\* Largest value of stats.dht.totalQueries.
MaxQueries == 1
\* Number of intervals startDiscovery() sets in one behaviour.
MaxTimers == 2

DNWorld ==
    [connected |-> connected, buckets |-> kbBuckets, totalQueries |-> dnTotalQueries,
     errorListener |-> dnErrorListener, transport |-> dnTransport, net |-> dnNet,
     sent |-> <<>>, found |-> Undefined, events |-> <<>>, timers |-> dnTimers]

smStorage == <<fsMeta, fsChunks, dht, localChunks, peerChunks, stats, smProviders,
               smReplicationFactor, metadataCache, events, nOps, lastCall, stored>>

DNBecomes(d) ==
    /\ connected' = d.connected
    /\ kbBuckets' = d.buckets
    /\ dnTotalQueries' = d.totalQueries
    /\ dnNet' = d.net
    /\ dnTimers' = d.timers
    /\ UNCHANGED <<dnTransport, dnErrorListener>>

\* The record of a call; value and val are optional values.
DNCalled(op, key, value, failing, r) ==
    [op |-> op, key |-> key, value |-> value, failing |-> failing, ok |-> r.ok,
     val |-> IF r.ok /\ op = "get" THEN Some(r.val) ELSE Undefined, err |-> r.err,
     sent |-> r.w.sent, found |-> r.w.found, events |-> r.w.events,
     stopping |-> dnStop.pc # "idle"]

DNInit ==
    /\ SMConstructed(<<>>, FALSE, Undefined)
    /\ KBConstructed
    /\ \E transport \in {"stub", "peers"} : DNConstructed(transport)
    /\ now = 0
    /\ bridge = [connected |-> FALSE, connecting |-> 0, disconnecting |-> FALSE, retries |-> 0,
                 last |-> [op |-> "none"]]
    /\ siPending = <<>>
    /\ node = [isRunning |-> FALSE, starting |-> 0, stopping |-> FALSE, last |-> [op |-> "none"]]

\* node.on('error', listener)
DNOnError ==
    /\ ~dnErrorListener
    /\ dnErrorListener' = TRUE
    /\ UNCHANGED <<siPending, node, dnTimers, connected, smStorage, kbVars, dnNet, dnTransport, dnTotalQueries, dnStop,
                   dnLast, now, bridge>>

\* getRoutingTable().addPeer(peer) for a new peer, up to its await.
DNAddPeer(peerId) ==
    /\ FindIndexOfId(kbBuckets[getBucketIndex(SelfId, peerId)].peers, peerId) = -1
    /\ Len(kbPending) < MaxPending
    /\ kbBuckets' = addPeer(kbBuckets, SelfId, peerId, now)
    /\ kbPending' = Append(kbPending, getBucketIndex(SelfId, peerId))
    /\ UNCHANGED <<siPending, node, kbLast, smVars, dnVars, now, bridge>>

\* start()
DNStart ==
    /\ dnTimers < MaxTimers
    /\ \E r \in {start(DNWorld)} :
          /\ DNBecomes(r.w)
          /\ dnLast' = DNCalled("start", Undefined, Undefined, {}, r)
    /\ UNCHANGED <<siPending, node, smStorage, kbPending, kbLast, dnStop, now, bridge>>

\* stop() up to its first await: it returns at once when the node is not
\* connected, else getAllPeers() has listed the peers.
DNStop ==
    /\ dnStop.pc = "idle"
    /\ dnStop' = IF connected
                 THEN [pc |-> "listed",
                       peers |-> [i \in 1..size(kbBuckets) |-> getAllPeers(kbBuckets)[i].id]]
                 ELSE dnStop
    /\ dnLast' = [op |-> "stop", ok |-> TRUE, stopping |-> FALSE, events |-> <<>>]
    /\ UNCHANGED <<siPending, node, dnTimers, connected, smStorage, kbVars, dnNet, dnTransport, dnErrorListener,
                   dnTotalQueries, now, bridge>>

\* stop() after getAllPeers: every disconnectFromPeer runs up to the end of
\* its removePeer, and then every one emits 'peer:disconnect'.
DNStopDisconnect ==
    /\ dnStop.pc = "listed"
    /\ LET RECURSIVE DisconnectAll(_, _), EmitAll(_, _)
           DisconnectAll(buckets, peerIds) ==
               IF peerIds = <<>> THEN buckets
               ELSE DisconnectAll(removePeer(buckets, SelfId, Head(peerIds), now),
                                  Tail(peerIds))
           EmitAll(d, peerIds) ==
               IF peerIds = <<>> THEN d
               ELSE EmitAll(DnEmit(d, "peer:disconnect", Head(peerIds)), Tail(peerIds))
       IN \E d \in {EmitAll([DNWorld EXCEPT !.buckets = DisconnectAll(@, dnStop.peers)],
                            dnStop.peers)} :
             /\ kbBuckets' = d.buckets
             /\ dnLast' = [op |-> "disconnect", ok |-> TRUE, stopping |-> TRUE,
                           events |-> d.events]
    /\ dnStop' = [dnStop EXCEPT !.pc = "removed"]
    /\ UNCHANGED <<siPending, node, dnTimers, connected, smStorage, kbPending, kbLast, dnNet, dnTransport, dnErrorListener,
                   dnTotalQueries, now, bridge>>

\* stop() after the disconnects: this.connected = false.
DNStopDone ==
    /\ dnStop.pc = "removed"
    /\ connected' = FALSE
    /\ dnStop' = [pc |-> "idle", peers |-> <<>>]
    /\ dnLast' = [op |-> "stopped", ok |-> TRUE, stopping |-> FALSE,
                  events |-> DnEmit([DNWorld EXCEPT !.connected = FALSE], "stopped",
                                    Undefined).events]
    /\ UNCHANGED <<siPending, node, dnTimers, smStorage, kbVars, dnNet, dnTransport, dnErrorListener, dnTotalQueries, now, bridge>>

\* put(key, value)
DNPut(key, value, failing) ==
    /\ \E r \in {put(DNWorld, key, value, failing)} :
          /\ DNBecomes(r.w)
          /\ dnLast' = DNCalled("put", key, Some(value), failing, r)
    /\ UNCHANGED <<siPending, node, smStorage, kbPending, kbLast, dnStop, now, bridge>>

\* get(key)
DNGet(key, failing) ==
    /\ \E r \in {get(DNWorld, key, failing)} :
          /\ DNBecomes(r.w)
          /\ dnLast' = DNCalled("get", key, Undefined, failing, r)
    /\ UNCHANGED <<siPending, node, smStorage, kbPending, kbLast, dnStop, now, bridge>>

\* delete(key)
DNDelete(key, failing) ==
    /\ dnTotalQueries < MaxQueries
    /\ \E r \in {dhtDelete(DNWorld, key, failing)} :
          /\ DNBecomes(r.w)
          /\ dnLast' = DNCalled("delete", key, Undefined, failing, r)
    /\ UNCHANGED <<siPending, node, smStorage, kbPending, kbLast, dnStop, now, bridge>>

DNNext ==
    \/ DNOnError
    \/ \E peerId \in {<<"3", "5">>, <<"e", "5">>} : DNAddPeer(peerId)
    \/ KBAddPeerResume
    \/ DNStart
    \/ DNStop
    \/ DNStopDisconnect
    \/ DNStopDone
    \/ \E key \in {<<"2", "4">>}, value \in {"x", ""}, failing \in {{}, {<<"e", "5">>}} :
          DNPut(key, value, failing)
    \/ \E key \in {<<"2", "4">>}, failing \in {{}, {<<"e", "5">>}} : DNGet(key, failing)
    \/ \E key \in {<<"2", "4">>}, failing \in {{}, {<<"e", "5">>}} : DNDelete(key, failing)

\* The DHT node with its routing table.
SpecDHT == DNInit /\ [][DNNext]_vars

(***************************************************************************)
(* The protocol: the messages that validateMessage is handed.              *)
(***************************************************************************)
\* The messages: with a key of 2 * KEY_SIZE lower case hex digits, the same
\* in upper case, too short, too long, with a character that is no hex
\* digit, and the empty string; with timestamps from before the window of
\* the first instant to after the window of the last.
Messages ==
    [dhtType : {Undefined, Some("STORE")},
     protocol : {Undefined, Some("dht")},
     version : {Undefined, Some("1.0.0")},
     payload : [sender : {Undefined, Some(""), Some("a5")},
                key : {Undefined, Some(<<>>),
                       Some([i \in 1..(2 * KEY_SIZE) |-> "a"]),
                       Some([i \in 1..(2 * KEY_SIZE) |-> "A"]),
                       Some([i \in 1..(2 * KEY_SIZE - 1) |-> "a"]),
                       Some([i \in 1..(2 * KEY_SIZE + 1) |-> "a"]),
                       Some([i \in 1..(2 * KEY_SIZE) |-> "g"])},
                timestamp : (0 - MAX_TIME_DIFF - 1)..(MaxTime + MAX_TIME_DIFF + 1)]]

\* validateMessage(message)
PRValidateMessage(message) ==
    /\ dnLast' = [op |-> "validateMessage", message |-> message, at |-> now,
                  val |-> validateMessage(message, now)]
    /\ UNCHANGED <<siPending, node, dnTimers, smVars, kbVars, dnNet, dnTransport, dnErrorListener, dnTotalQueries, dnStop,
                   now, bridge>>

PRNext ==
    \/ \E message \in Messages : PRValidateMessage(message)
    \/ KBTick

\* The protocol.
SpecProtocol == KBInit /\ [][PRNext]_vars

(***************************************************************************)
(* The chunk manager on its own.  split is given a buffer and a chunk      *)
(* size; combine is given the descriptors of the last split in some order, *)
(* each with the bytes of the buffer it describes, but for one chunk that  *)
(* may be another buffer, and but for the last chunk that may be missing.  *)
(***************************************************************************)
\* split(data, chunkSize)
CMSplit(data, chunkSize) ==
    /\ dnLast' = [op |-> "split", data |-> data, chunkSize |-> chunkSize,
                  val |-> split(data, chunkSize)]
    /\ UNCHANGED <<siPending, node, dnTimers, smVars, kbVars, dnNet, dnTransport, dnErrorListener, dnTotalQueries, dnStop,
                   now, bridge>>

\* combine(chunks, info): pair i is descriptor order[i] of the last split
\* with its bytes; the chunk of descriptor at (if any) is replaced by chunk.
CMCombine(order, at, chunk, drop) ==
    /\ dnLast.op = "split"
    /\ DOMAIN order = 1..Len(dnLast.val)
    /\ \E n \in {IF drop /\ Len(order) > 0 THEN Len(order) - 1 ELSE Len(order)} :
          LET RECURSIVE Offset(_)
              Offset(i) == IF i = 1 THEN 0 ELSE Offset(i - 1) + dnLast.val[i - 1].size
              Range(i) == SubSeq(dnLast.data, Offset(i) + 1, Offset(i) + dnLast.val[i].size)
              Combined(chunks, info) ==
                  [op |-> "combine", data |-> dnLast.data, chunkSize |-> dnLast.chunkSize,
                   chunks |-> chunks, info |-> info, r |-> combine(chunks, info)]
          IN dnLast' = Combined([i \in 1..n |-> IF order[i] = at THEN chunk
                                                ELSE Range(order[i])],
                                [i \in 1..Len(order) |-> dnLast.val[order[i]]])
    /\ UNCHANGED <<siPending, node, dnTimers, smVars, kbVars, dnNet, dnTransport, dnErrorListener, dnTotalQueries, dnStop,
                   now, bridge>>

\* The chunk manager.
SpecChunk ==
    KBInit /\ [][\/ \E data \in Buffers, chunkSize \in 1..(MaxLen + 1) :
                       CMSplit(data, chunkSize)
                 \/ \E order \in UNION {Permutations(1..n) : n \in 0..MaxLen},
                       at \in 0..MaxLen, chunk \in Buffers, drop \in BOOLEAN :
                       CMCombine(order, at, chunk, drop)]_vars

\* Number of runs of split's loop that are followed.
MaxIterations == 4

\* buf.slice(start, end) of a Buffer: a negative index counts from the end.
BufferSlice(s, from, to) ==
    LET At(k) == IF k < 0 THEN (IF Len(s) + k < 0 THEN 0 ELSE Len(s) + k) ELSE Min(k, Len(s))
    IN IF At(to) <= At(from) THEN <<>> ELSE SubSeq(s, At(from) + 1, At(to))

\* split(data, chunkSize) is called: chunks = [], index = 0, offset = 0.
CMSplitCall(data, chunkSize) ==
    /\ dnLast' = [op |-> "split.loop", data |-> data, chunkSize |-> chunkSize,
                  index |-> 0, offset |-> 0, chunks |-> <<>>]
    /\ UNCHANGED <<siPending, node, dnTimers, smVars, kbVars, dnNet, dnTransport, dnErrorListener, dnTotalQueries, dnStop,
                   now, bridge>>

\* One run of the body of split's loop, `while (offset < data.length)`.
CMSplitLoop ==
    /\ dnLast.op = "split.loop"
    /\ dnLast.index < MaxIterations
    /\ dnLast.offset < Len(dnLast.data)
    /\ \E chunkLen \in {Min(dnLast.chunkSize, Len(dnLast.data) - dnLast.offset)} :
          dnLast' = [dnLast EXCEPT
                        !.chunks = Append(@, [index |-> dnLast.index, size |-> chunkLen,
                                              checksum |-> calculateChecksum(
                                                  BufferSlice(dnLast.data, dnLast.offset,
                                                              dnLast.offset + chunkLen)),
                                              location |-> Some(SplitLocation), replicas |-> 0]),
                        !.offset = @ + chunkLen,
                        !.index = @ + 1]
    /\ UNCHANGED <<siPending, node, dnTimers, smVars, kbVars, dnNet, dnTransport, dnErrorListener, dnTotalQueries, dnStop,
                   now, bridge>>

\* The loop has ended: split returns the chunks.
CMSplitReturn ==
    /\ dnLast.op = "split.loop"
    /\ ~(dnLast.offset < Len(dnLast.data))
    /\ dnLast' = [op |-> "split", data |-> dnLast.data, chunkSize |-> dnLast.chunkSize,
                  val |-> dnLast.chunks]
    /\ UNCHANGED <<siPending, node, dnTimers, smVars, kbVars, dnNet, dnTransport, dnErrorListener, dnTotalQueries, dnStop,
                   now, bridge>>

\* split, one run of its loop at a time, for the chunk sizes that
\* options.chunks.size can hold.
SpecSplit ==
    KBInit /\ [][\/ \E data \in Buffers, chunkSize \in -2..(MaxLen + 1) :
                       CMSplitCall(data, chunkSize)
                 \/ CMSplitLoop
                 \/ CMSplitReturn]_vars

\* One run of the timer callback of an interval that startDiscovery() has
\* set: a PING to every peer of the routing table; the peer that answers
\* has its lastSeen set, the peer that does not is disconnected.
DNDiscoveryRun(failing) ==
    /\ dnTimers > 0
    /\ LET RECURSIVE Ping(_, _)
           Seen(buckets, b, peerId) ==
               [buckets EXCEPT ![b].peers =
                   [i \in 1..Len(@) |-> IF @[i].id = peerId THEN [@[i] EXCEPT !.lastSeen = now]
                                        ELSE @[i]]]
           Pinged(r, peers) ==
               IF r.ok
               THEN Ping([r.w EXCEPT !.buckets =
                             Seen(@, getBucketIndex(SelfId, Head(peers).id), Head(peers).id)],
                         Tail(peers))
               ELSE Ping(DnEmit([r.w EXCEPT !.buckets =
                                    removePeer(@, SelfId, Head(peers).id, now)],
                                "peer:disconnect", Head(peers).id),
                         Tail(peers))
           Ping(d, peers) ==
               IF peers = <<>> THEN d
               ELSE Pinged(sendMessage(d, "PING", Undefined, Undefined, Head(peers), failing),
                           peers)
       IN \E d \in {Ping(DNWorld, getAllPeers(kbBuckets))} :
             /\ DNBecomes(d)
             /\ dnLast' = [op |-> "discovery", failing |-> failing, at |-> now,
                           before |-> getAllPeers(kbBuckets), sent |-> d.sent,
                           events |-> d.events]
    /\ UNCHANGED <<siPending, node, smStorage, kbPending, kbLast, dnStop, now, bridge>>

\* The DHT node with its discovery, over time.
SpecDiscovery ==
    DNInit /\ [][\/ \E peerId \in {<<"3", "5">>, <<"e", "5">>} : DNAddPeer(peerId)
                 \/ KBAddPeerResume
                 \/ DNStart
                 \/ DNStop
                 \/ DNStopDisconnect
                 \/ DNStopDone
                 \/ KBTick
                 \/ \E failing \in {{}, {<<"e", "5">>}} : DNDiscoveryRun(failing)]_vars

\* The storage manager and the DHT node with one peer: the calls that
\* emit events.
SpecEvents ==
    SMInit /\ [][\/ \E data \in {<<1>>}, strategy \in Strategies, replicas \in {Undefined} :
                       SMStore(data, strategy, replicas)
                 \/ \E id \in KnownIds : SMDelete(id)
                 \/ \E peerId \in {<<"e", "5">>} : DNAddPeer(peerId)
                 \/ KBAddPeerResume
                 \/ DNStart
                 \/ DNStop
                 \/ DNStopDisconnect
                 \/ DNStopDone]_vars

\* The DHT node as its callers use it: the storage providers and the
\* registries put and get under keys such as `metadata:${id}`, here m:1,
\* besides a key of hex digits.
SpecKeys ==
    DNInit /\ [][\/ \E peerId \in {<<"3", "5">>, <<"e", "5">>} : DNAddPeer(peerId)
                 \/ KBAddPeerResume
                 \/ DNStart
                 \/ \E key \in {<<"2", "4">>, <<"m", ":", "1">>} : DNPut(key, "x", {})
                 \/ \E key \in {<<"2", "4">>, <<"m", ":", "1">>} : DNGet(key, {})
                 \/ \E key \in {<<"2", "4">>, <<"m", ":", "1">>} : DNDelete(key, {})]_vars

(***************************************************************************)
(* TenzroNetworkBridge (src/integration/bridge.ts) over its DHTNetwork.    *)
(* connect(options) runs up to its first await at once: it looks at        *)
(* this.connected and at the options, and with bootstrap options it has    *)
(* the network started; the rest of it, this.connected = true, runs later. *)
(* disconnect() awaits network.stop() and sets this.connected = false      *)
(* afterwards.  tryIPCConnection returns false; tryNetworkConnection, the  *)
(* connection to the local node's endpoint, fails as often as the endpoint *)
(* refuses it.  The attempts of one connect are taken as one step.         *)
(***************************************************************************)
\* Number of connect calls in progress at once.
MaxConnects == 2
\* Largest number of attempts in a row that the local endpoint refuses.
MaxFailures == 5
\* TenzroNetworkBridge.MAX_RETRIES
MAX_RETRIES == 3

\* connectToLocalNode with this.connectionRetries = retries, when the next
\* `failures` calls of tryNetworkConnection throw: [ok, retries, attempts].
RECURSIVE connectToLocalNode(_, _, _)
connectToLocalNode(retries, failures, attempts) ==
    IF failures = 0 THEN [ok |-> TRUE, retries |-> retries, attempts |-> attempts + 1]
    ELSE IF retries < MAX_RETRIES
    THEN connectToLocalNode(retries + 1, failures - 1, attempts + 1)
    ELSE [ok |-> FALSE, retries |-> retries, attempts |-> attempts + 1]

\* connect(options) up to its first await; kind tells which options are
\* given: "local" (localNode), "bootstrap" or "none", and failures how many
\* attempts in a row the local endpoint refuses.  The caller says what
\* becomes of the C0reNode.
BridgeConnect(kind, failures) ==
    /\ bridge.connecting < MaxConnects
    /\ kind # "local" => failures = 0
    /\ kind = "bootstrap" => dnTimers < MaxTimers
    /\ \E l \in {connectToLocalNode(bridge.retries, failures, 0)} :
       \E r \in {IF bridge.connected THEN Throw(DNWorld, "ALREADY_CONNECTED")
                 ELSE IF kind = "local"
                 THEN IF l.ok THEN Ok(DNWorld, Undefined)
                      ELSE Throw(DNWorld, "LOCAL_CONNECTION_FAILED")
                 ELSE IF kind = "bootstrap"
                 THEN IF start(DNWorld).ok THEN start(DNWorld)
                      ELSE Throw(DNWorld, "BOOTSTRAP_CONNECTION_FAILED")
                 ELSE Throw(DNWorld, "NO_CONNECTION_OPTIONS")} :
          /\ DNBecomes(r.w)
          /\ bridge' = [bridge EXCEPT
                           !.connecting = IF r.ok THEN @ + 1 ELSE @,
                           !.retries = IF ~bridge.connected /\ kind = "local"
                                       THEN l.retries ELSE @,
                           !.last = [op |-> "connect", kind |-> kind, ok |-> r.ok,
                                     err |-> r.err, failures |-> failures,
                                     attempts |-> IF ~bridge.connected /\ kind = "local"
                                                  THEN l.attempts ELSE 0]]
    /\ UNCHANGED <<siPending, smStorage, kbPending, kbLast, dnStop, dnLast, now>>

\* bridge.connect(options), called on the bridge itself.
BRConnect(kind, failures) ==
    /\ BridgeConnect(kind, failures)
    /\ UNCHANGED node

\* connect after its awaits: this.connected = true.
BRConnectResume ==
    /\ bridge.connecting > 0
    /\ bridge' = [bridge EXCEPT !.connected = TRUE, !.connecting = @ - 1,
                                !.last = [op |-> "connected"]]
    /\ UNCHANGED <<siPending, node, smVars, kbVars, dnVars, now>>

\* disconnect() up to its await of network.stop(), which is stop() up to
\* its first await.
BRDisconnect ==
    /\ ~bridge.disconnecting
    /\ dnStop.pc = "idle"
    /\ bridge' = [bridge EXCEPT !.disconnecting = bridge.connected,
                                !.last = [op |-> "disconnect"]]
    /\ dnStop' = IF bridge.connected /\ connected
                 THEN [pc |-> "listed",
                       peers |-> [i \in 1..size(kbBuckets) |-> getAllPeers(kbBuckets)[i].id]]
                 ELSE dnStop
    /\ UNCHANGED <<siPending, node, dnTimers, smVars, kbVars, dnNet, dnTransport, dnErrorListener, dnTotalQueries, dnLast,
                   now>>

\* disconnect() after network.stop(): this.connected = false.
BRDisconnectResume ==
    /\ bridge.disconnecting
    /\ dnStop.pc = "idle"
    /\ bridge' = [bridge EXCEPT !.connected = FALSE, !.disconnecting = FALSE,
                                !.last = [op |-> "disconnected"]]
    /\ UNCHANGED <<siPending, node, smVars, kbVars, dnVars, now>>

\* The bridge and its DHT node.
SpecBridge ==
    KBInit /\ [][\/ \E kind \in {"none", "local", "bootstrap"}, failures \in 0..MaxFailures :
                       BRConnect(kind, failures)
                 \/ BRConnectResume
                 \/ BRDisconnect
                 \/ BRDisconnectResume
                 \/ DNStopDisconnect
                 \/ DNStopDone
                 \/ \E peerId \in {<<"3", "5">>, <<"e", "5">>} : DNAddPeer(peerId)
                 \/ KBAddPeerResume]_vars

(***************************************************************************)
(* C0reNode (src/integration/core.ts) over its bridge.  The constructor    *)
(* calls initializeComponents, which makes the bridge, the network, the    *)
(* storage, the search engine and the version control; start() connects    *)
(* the bridge to the local node and then asks getComponents for the        *)
(* storage and for the discovery.                                          *)
(***************************************************************************)
\* The components that initializeComponents assigns.
initializeComponents == {"bridge", "network", "storage", "search", "versionControl"}

\* getComponents(): it returns the components when none of the six is
\* undefined, and throws otherwise.
getComponents(components) ==
    {"bridge", "network", "storage", "discovery", "search", "versionControl"}
        \subseteq components

\* start() up to its await of bridge.connect: it returns at once on a
\* running node; a connect that throws is caught, emitted as 'error' and
\* thrown again.
CNStart(failures) ==
    IF node.isRunning \/ "bridge" \notin initializeComponents
    THEN /\ node' = [node EXCEPT !.last = [op |-> "start", settled |-> TRUE, ok |-> TRUE,
                                            err |-> ""]]
         /\ UNCHANGED <<siPending, smVars, kbVars, dnVars, bridge, now>>
    ELSE /\ BridgeConnect("local", failures)
         /\ node' = [node EXCEPT !.starting = IF bridge'.last.ok THEN @ + 1 ELSE @,
                                  !.last = [op |-> "start", settled |-> ~bridge'.last.ok,
                                            ok |-> FALSE, err |-> bridge'.last.err]]

\* start() after bridge.connect: the bridge has set this.connected = true;
\* initializeStorage and initializeDiscovery call getComponents, then
\* this.isRunning = true; what is thrown is caught, emitted as 'error' and
\* thrown again.
CNStartResume ==
    /\ node.starting > 0
    /\ bridge.connecting > 0
    /\ bridge' = [bridge EXCEPT !.connected = TRUE, !.connecting = @ - 1,
                                !.last = [op |-> "connected"]]
    /\ node' = IF getComponents(initializeComponents)
               THEN [node EXCEPT !.isRunning = TRUE, !.starting = @ - 1,
                                 !.last = [op |-> "start", settled |-> TRUE, ok |-> TRUE,
                                           err |-> ""]]
               ELSE [node EXCEPT !.starting = @ - 1,
                                 !.last = [op |-> "start", settled |-> TRUE, ok |-> FALSE,
                                           err |-> "Components not properly initialized"]]
    /\ UNCHANGED <<siPending, smVars, kbVars, dnVars, now>>

\* stop(): it returns at once on a node that is not running; on a running
\* node it has the bridge disconnected and sets this.isRunning = false,
\* taken with its awaits as one step.
CNStop ==
    /\ node' = [node EXCEPT !.isRunning = FALSE,
                            !.last = [op |-> "stop", settled |-> TRUE, ok |-> TRUE,
                                      err |-> ""]]
    /\ bridge' = IF ~node.isRunning \/ "bridge" \notin initializeComponents
                 THEN bridge
                 ELSE [bridge EXCEPT !.connected = FALSE, !.last = [op |-> "disconnected"]]
    /\ UNCHANGED <<siPending, smVars, kbVars, dnVars, now>>

\* The C0reNode, started and stopped, while its bridge hears of peers.
SpecNode ==
    KBInit /\ [][\/ \E failures \in 0..MaxFailures : CNStart(failures)
                 \/ CNStartResume
                 \/ CNStop
                 \/ \E peerId \in {<<"3", "5">>, <<"e", "5">>} : DNAddPeer(peerId)
                 \/ KBAddPeerResume]_vars

(***************************************************************************)
(* Properties of the storage manager.                                      *)
(***************************************************************************)
EventsOf(type) == {i \in 1..Len(events) : events[i].type = type}

\* C1: retrieve of the id that store returned for a buffer x returns
\* exactly x, for every strategy, when no provider or network operation
\* fails (the DHT network is started).
C1_RetrieveReturnsStored ==
    (/\ lastCall.op = "retrieve"
     /\ connected
     /\ lastCall.arg[1] \in DOMAIN stored)
    => (lastCall.ok /\ lastCall.val = stored[lastCall.arg[1]])

\* C2: every buffer retrieve returns has passed the checksum validation
\* against the metadata of the artifact, whichever path returns it, the
\* one of options.preferredProvider included.
C2_ReturnedBytesValidated ==
    (/\ lastCall.op = "retrieve"
     /\ lastCall.ok)
    => calculateChecksum(lastCall.val) = metadataCache[lastCall.arg[1]].checksum

\* retrieve never returns a buffer.
RetrieveNeverReturns == lastCall.op = "retrieve" => ~lastCall.ok

\* The call store({data, strategy: 'hybrid', options: {replicas}}) was the
\* last one, and the primary (first configured) provider holds its artifact.
HybridStorePrimaryDone ==
    /\ lastCall.op = "store"
    /\ lastCall.arg[2] = "hybrid"
    /\ smProviders # <<>>
    /\ ProviderGetMetadata(smProviders[1], World, generateId(lastCall.arg[1], lastCall.at)).ok

\* The secondary providers a replication was started for.
ReplicationTargets ==
    IF Len(smProviders) > 1 /\ lastCall.arg[3] # Some(0)
    THEN JsSlice(Tail(smProviders), 0,
                 Nullish(lastCall.arg[3], Nullish(smReplicationFactor, Some(1)))[1] - 1)
    ELSE <<>>

ReplicationEvents(type, provider) ==
    {i \in EventsOf(type) : events[i].provider = provider}

\* C3: in a hybrid store whose primary provider stored the artifact, the
\* failure of a secondary provider does not fail store: store returns the
\* primary's metadata, and 'replication-failed' is emitted for every
\* secondary whose replication did not succeed.
C3_SecondaryFailureTolerated ==
    HybridStorePrimaryDone
    => /\ lastCall.ok
       /\ lastCall.val = ProviderGetMetadata(smProviders[1], World, lastCall.val.id).val
       /\ \A i \in 1..Len(ReplicationTargets) :
             ReplicationEvents("replicated", ReplicationTargets[i]) = {}
                => ReplicationEvents("replication-failed", ReplicationTargets[i]) # {}

\* A hybrid store returned the primary's metadata although a replication
\* failed.
C3_Witness ==
    /\ HybridStorePrimaryDone
    /\ lastCall.ok
    /\ EventsOf("replication-failed") # {}

\* C4: a hybrid store that succeeded on the primary, with no replicas
\* option and no configured replicationFactor, ends with exactly one
\* 'replicated' or 'replication-failed' event for every other configured
\* provider.
C4_ReplicatesToEveryOther ==
    (/\ HybridStorePrimaryDone
     /\ lastCall.arg[3] = Undefined
     /\ smReplicationFactor = Undefined)
    => \A i \in 2..Len(smProviders) :
          Cardinality(ReplicationEvents("replicated", smProviders[i])
                      \cup ReplicationEvents("replication-failed", smProviders[i])) = 1

\* C5: delete(id) returns, and it returns false only when no provider
\* removed the artifact: after a false, no configured provider holds an
\* artifact that its delete removes.
C5_DeleteFalseOnlyWhenNoneRemoves ==
    lastCall.op = "delete"
    => /\ lastCall.ok
       /\ lastCall.val = FALSE
             => \A i \in 1..Len(smProviders) :
                   ~ProviderDelete(smProviders[i], World, lastCall.arg[1]).val

(***************************************************************************)
(* Properties of the routing table.                                        *)
(***************************************************************************)
BucketIndexes == 0..(numberOfBuckets - 1)

\* The value of a key as a number of 8 * KEY_SIZE bits.
RECURSIVE KeyValue(_, _)
KeyValue(buffer, i) ==
    IF i > KEY_SIZE THEN 0
    ELSE (IF i <= Len(buffer) THEN buffer[i] ELSE 0) * 256^(KEY_SIZE - i) + KeyValue(buffer, i + 1)

\* x XOR y of two numbers, bit by bit.
XorOf(x, y) ==
    LET bits == {k \in 0..(8 * KEY_SIZE - 1) : ((x \div 2^k) % 2) # ((y \div 2^k) % 2)}
        RECURSIVE Sum(_)
        Sum(S) == IF S = {} THEN 0 ELSE LET k == CHOOSE k \in S : TRUE IN 2^k + Sum(S \ {k})
    IN Sum(bits)

\* The number of leading zero bits of a distance of 8 * KEY_SIZE bits; the
\* last index for the distance 0.
MsbIndex(x) ==
    IF x = 0 THEN 8 * KEY_SIZE - 1
    ELSE CHOOSE n \in 0..(8 * KEY_SIZE - 1) :
            2^(8 * KEY_SIZE - 1 - n) <= x /\ x < 2^(8 * KEY_SIZE - n)

PeerBucket(peerId) ==
    MsbIndex(XorOf(KeyValue(BufferFromHex(SelfId), 1), KeyValue(BufferFromHex(peerId), 1)))

\* The ids of the peers of the table, bucket after bucket.
RECURSIVE TableIds(_)
TableIds(b) ==
    IF b = numberOfBuckets THEN <<>>
    ELSE [i \in 1..Len(kbBuckets[b].peers) |-> kbBuckets[b].peers[i].id] \o TableIds(b + 1)

IdsOf(peers) == {peers[i].id : i \in 1..Len(peers)}

\* The last call was addPeer for a peer that its bucket, holding kSize
\* peers, did not hold.
AddedToFullBucket ==
    /\ kbLast.op = "addPeer"
    /\ Len(kbLast.before) = kSize
    /\ kbLast.id \notin IdsOf(kbLast.before)

\* C6: every bucket holds at most kSize peers.
C6_BucketsHoldAtMostK == \A b \in BucketIndexes : Len(kbBuckets[b].peers) <= kSize

\* addPeer for a new peer met a bucket of kSize peers.
C6_Witness ==
    /\ AddedToFullBucket
    /\ \E b \in BucketIndexes : Len(kbBuckets[b].peers) = kSize

\* C7: every peer of bucket b has b as the index of the most significant
\* set bit of XOR(self, id), counted from the most significant bit of the
\* key (the last index when the XOR is 0).
C7_PeerInBucketOfDistance ==
    \A b \in BucketIndexes : \A i \in 1..Len(kbBuckets[b].peers) :
        b = PeerBucket(kbBuckets[b].peers[i].id)

\* Peers at two distances are in two buckets, neither of them the last.
C7_Witness ==
    \E b, c \in BucketIndexes :
        /\ b < c /\ c < numberOfBuckets - 1
        /\ kbBuckets[b].peers # <<>>
        /\ kbBuckets[c].peers # <<>>

\* C8: no peer id is twice in the routing table, neither in one bucket nor
\* in two, whatever the interleaving of the calls.
C8_NoPeerTwice ==
    \A i, j \in 1..Len(TableIds(0)) : TableIds(0)[i] = TableIds(0)[j] => i = j

\* addPeer ran for a peer of a bucket while an addPeer for that bucket was
\* suspended at its await.
C8_Witness ==
    /\ kbLast.op = "addPeer"
    /\ kbLast.id \in IdsOf(kbLast.before)
    /\ kbPending # <<>>
    /\ kbLast.id \in IdsOf(kbBuckets[Head(kbPending)].peers)

\* C9: the node's own id is in no bucket.
C9_SelfNeverStored ==
    \A b \in BucketIndexes : SelfId \notin IdsOf(kbBuckets[b].peers)

\* The peers of a sequence without the one at index i.
Without(peers, i) == SubSeq(peers, 1, i - 1) \o SubSeq(peers, i + 1, Len(peers))

\* The last call was addPeer for a new peer whose bucket was full and had
\* a stale peer.
AddedToFullBucketWithStale ==
    /\ AddedToFullBucket
    /\ \E i \in 1..Len(kbLast.before) : (kbLast.at - kbLast.before[i].lastSeen) > STALE_THRESHOLD

AddedToFullBucketNoStale ==
    /\ AddedToFullBucket
    /\ \A i \in 1..Len(kbLast.before) : (kbLast.at - kbLast.before[i].lastSeen) <= STALE_THRESHOLD

\* C11: addPeer of a new peer whose bucket is full and holds no stale peer
\* rejects the new peer and leaves the peers of the bucket as they were:
\* the same peers in the same order, the head included.
C11_RejectsWhenNoStale ==
    AddedToFullBucketNoStale
    => kbBuckets[getBucketIndex(SelfId, kbLast.id)].peers = kbLast.before

\* A new peer met a full bucket of peers that were all seen just now.
C11_Witness ==
    /\ AddedToFullBucketNoStale
    /\ kbLast.before[1].lastSeen = kbLast.at
    /\ kbBuckets[getBucketIndex(SelfId, kbLast.id)].peers[1] = kbLast.before[1]

\* The XOR distance from the node to a peer, as a number.
PeerDistance(peerId) ==
    XorOf(KeyValue(BufferFromHex(SelfId), 1), KeyValue(BufferFromHex(peerId), 1))

\* C12: bucket 0 holds the closest peers and the last bucket the farthest:
\* a peer that differs from the node in the least significant bit only is
\* in bucket 0, a peer that differs in the most significant bit is in the
\* last bucket, and the bucket index does not decrease as the distance
\* grows.
C12_IndexGrowsWithDistance ==
    \A b \in BucketIndexes : \A i \in 1..Len(kbBuckets[b].peers) :
        /\ PeerDistance(kbBuckets[b].peers[i].id) = 1 => b = 0
        /\ PeerDistance(kbBuckets[b].peers[i].id) >= 2^(8 * KEY_SIZE - 1)
              => b = numberOfBuckets - 1
        /\ \A c \in BucketIndexes : \A j \in 1..Len(kbBuckets[c].peers) :
              PeerDistance(kbBuckets[b].peers[i].id) <= PeerDistance(kbBuckets[c].peers[j].id)
                 => b <= c


\* The XOR distance from a peer to a key, as a number.
KeyDistance(peerId, key) ==
    XorOf(KeyValue(BufferFromHex(peerId), 1), KeyValue(BufferFromHex(key), 1))

C26_KnownPeerMovesToTail ==
    (kbLast.op = "addPeer" /\ kbLast.id \in IdsOf(kbLast.before))
    => LET peers == kbBuckets[getBucketIndex(SelfId, kbLast.id)].peers
           was == CHOOSE i \in 1..Len(kbLast.before) : kbLast.before[i].id = kbLast.id
       IN /\ Len(peers) = Len(kbLast.before)
          /\ peers[Len(peers)] = [id |-> kbLast.id, lastSeen |-> kbLast.at]
          /\ SubSeq(peers, 1, Len(peers) - 1) = Without(kbLast.before, was)

(***************************************************************************)
(* Properties of the protocol and of the DHT node.                         *)
(***************************************************************************)
\* A key of as many lower case hex digits as a key has (64 in the code).
IsLowerHexKey(key) ==
    /\ Len(key) = 2 * KEY_SIZE
    /\ \A i \in 1..Len(key) :
          key[i] \in {"0", "1", "2", "3", "4", "5", "6", "7", "8", "9", "a", "b", "c", "d", "e", "f"}

\* The timestamp of the last validated message is in the window.
InWindow ==
    /\ dnLast.message.payload.timestamp - dnLast.at <= MAX_TIME_DIFF
    /\ dnLast.at - dnLast.message.payload.timestamp <= MAX_TIME_DIFF

\* C14: validateMessage returns false for a message without dhtType or
\* sender, for a message whose key is present and is not 64 lower case hex
\* digits, and for a message whose timestamp is more than MAX_TIME_DIFF
\* before or after now; it returns true for a well-formed message whose
\* timestamp is in the window.
C14_ValidateMessage ==
    dnLast.op = "validateMessage"
    => /\ (\/ dnLast.message.dhtType = Undefined
           \/ dnLast.message.payload.sender = Undefined
           \/ /\ dnLast.message.payload.key # Undefined
              /\ ~IsLowerHexKey(dnLast.message.payload.key[1])
           \/ ~InWindow)
          => dnLast.val = FALSE
       /\ (/\ dnLast.message.dhtType \notin {Undefined, Some("")}
           /\ dnLast.message.payload.sender \notin {Undefined, Some("")}
           /\ dnLast.message.protocol \notin {Undefined, Some("")}
           /\ dnLast.message.version \notin {Undefined, Some("")}
           /\ dnLast.message.payload.key # Undefined
                 => IsLowerHexKey(dnLast.message.payload.key[1])
           /\ InWindow)
          => dnLast.val = TRUE


\* The last call was a put, get or delete of a connected node.
AcceptedCall(ops) ==
    /\ dnLast.op \in ops
    /\ dnLast.err # "NOT_STARTED"

\* C15: on a started node, a get(key) that follows a completed put(key, v),
\* with no failure of a message in either, returns v.
C15_GetReturnsPut ==
    [][(/\ dnLast.op = "put"
        /\ dnLast.ok
        /\ dnLast.failing = {}
        /\ dnLast'.op = "get"
        /\ dnLast'.key = dnLast.key
        /\ dnLast'.failing = {})
       => (dnLast'.ok /\ dnLast'.val = dnLast.value)]_vars

\* The STORE messages of the last call that a peer acknowledged.
Acknowledged ==
    {i \in 1..Len(dnLast.sent) :
        /\ dnLast.sent[i].dhtType = "STORE"
        /\ dnTransport = "peers"
        /\ dnLast.sent[i].to \notin dnLast.failing}

\* C16: put(key, value) succeeds exactly when a peer acknowledged its
\* STORE, whatever became of the STORE to the other peers, and it returns
\* the number of acknowledgements.
C16_PutSucceedsIffAcknowledged ==
    AcceptedCall({"put"})
    => /\ dnLast.ok <=> Acknowledged # {}
       /\ dnLast.ok => dnLast.val = Some(Cardinality(Acknowledged))

\* C17: get(key) goes on when one peer fails, whether or not a listener of
\* 'error' is registered: it fails with NOT_FOUND only, and only when none
\* of the peers found that answer holds a value for the key; the value it
\* returns is the value of such a peer.
C17_GetSurvivesPeerFailure ==
    AcceptedCall({"get"})
    => /\ ~dnLast.ok
          => /\ dnLast.err = "NOT_FOUND"
             /\ dnLast.found # Undefined
             /\ \A i \in 1..Len(dnLast.found[1]) :
                   \/ dnLast.found[1][i].id \in dnLast.failing
                   \/ dnLast.key \notin DOMAIN dnNet[dnLast.found[1][i].id]
       /\ dnLast.ok
          => \E i \in 1..Len(dnLast.found[1]) :
                /\ dnLast.found[1][i].id \notin dnLast.failing
                /\ dnLast.key \in DOMAIN dnNet[dnLast.found[1][i].id]
                /\ dnLast.val = Some(dnNet[dnLast.found[1][i].id][dnLast.key])

\* The ids of the peers seen during a lookup: the peers of the routing
\* table that were asked, and the peers of the responses of those that
\* answered.
Observed(key, failing) ==
    IdsOf(getClosestPeers(kbBuckets, key, kSize))
    \cup (IF /\ dnTransport = "peers"
             /\ \E id \in IdsOf(getClosestPeers(kbBuckets, key, kSize)) : id \notin failing
          THEN {NetPeers[i] : i \in 1..Len(NetPeers)}
          ELSE {})

\* C18: findClosestPeers(target) returns the kSize closest of the peers
\* seen during the lookup, the peers of the routing table included, each
\* id once, in ascending order of the XOR distance to target.
C18_FindsClosestObserved ==
    [][(/\ dnLast' # dnLast
        /\ dnLast'.op \in {"put", "get", "delete"}
        /\ dnLast'.found # Undefined)
       => /\ Len(dnLast'.found[1]) = Min(kSize, Cardinality(Observed(dnLast'.key, dnLast'.failing)))
          /\ \A i \in 1..Len(dnLast'.found[1]) :
                /\ dnLast'.found[1][i].id \in Observed(dnLast'.key, dnLast'.failing)
                /\ \A j \in (i + 1)..Len(dnLast'.found[1]) :
                      /\ dnLast'.found[1][i].id # dnLast'.found[1][j].id
                      /\ KeyDistance(dnLast'.found[1][i].id, dnLast'.key)
                            <= KeyDistance(dnLast'.found[1][j].id, dnLast'.key)
                /\ \A id \in Observed(dnLast'.key, dnLast'.failing) \ IdsOf(dnLast'.found[1]) :
                      KeyDistance(dnLast'.found[1][i].id, dnLast'.key)
                         <= KeyDistance(id, dnLast'.key)]_vars

\* C27: a lookup has sent FIND_NODE to every peer that ranks among the
\* kSize closest of the peers seen during the lookup, the peers learned
\* from responses included, when it ends.
C27_LookupQueriesBestKnown ==
    [][(/\ dnLast' # dnLast
        /\ dnLast'.op \in {"put", "get", "delete"}
        /\ dnLast'.found # Undefined)
       => \A id \in Observed(dnLast'.key, dnLast'.failing) :
             Cardinality({other \in Observed(dnLast'.key, dnLast'.failing) :
                             KeyDistance(other, dnLast'.key) < KeyDistance(id, dnLast'.key)})
                < kSize
             => \E m \in 1..Len(dnLast'.sent) :
                   dnLast'.sent[m].dhtType = "FIND_NODE" /\ dnLast'.sent[m].to = id]_vars

\* C28: every message that a put, get or delete has sent carries a key of
\* 2 * KEY_SIZE lower case hex digits and passes validateMessage, whatever
\* key the caller gave.
C28_MessageKeysAreHashed ==
    AcceptedCall({"put", "get", "delete"})
    => \A m \in 1..Len(dnLast.sent) :
          /\ IsLowerHexKey(dnLast.sent[m].key)
          /\ validateMessage(createMessage(dnLast.sent[m].dhtType, "a5", dnLast.sent[m].key,
                                           now), now)

\* C19: put, get and delete of a node that is not started are rejected as
\* not started, and start of a started node is rejected as already
\* started; the rejected call leaves the routing table, the connected flag,
\* the stats and the peers as they were and sends no message.
C19_LifecycleMisuseRejected ==
    [][(/\ dnLast' # dnLast
        /\ \/ dnLast'.op \in {"put", "get", "delete"} /\ ~connected
           \/ dnLast'.op = "start" /\ connected)
       => /\ ~dnLast'.ok
          /\ dnLast'.err = IF dnLast'.op = "start" THEN "ALREADY_STARTED" ELSE "NOT_STARTED"
          /\ dnLast'.sent = <<>>
          /\ UNCHANGED <<siPending, node, dnTimers, kbBuckets, connected, dnTotalQueries, dnNet>>]_vars

\* A put was rejected on a node of the peer network that has a peer in
\* its routing table and is not started.
C19_Witness ==
    /\ dnLast.op = "put"
    /\ dnLast.err = "NOT_STARTED"
    /\ ~connected
    /\ dnTransport = "peers"
    /\ size(kbBuckets) > 0

\* C20: when stop() completes the routing table is empty and the node is
\* not connected, and a put, get or delete made after stop() was called,
\* be it while stop still removes the peers, is rejected as not started.
C20_StopRejectsNewCalls ==
    [][/\ (dnStop.pc = "removed" /\ dnStop'.pc = "idle")
          => (size(kbBuckets') = 0 /\ ~connected')
       /\ (/\ dnLast' # dnLast
           /\ dnLast'.op \in {"put", "get", "delete"}
           /\ dnStop.pc # "idle")
          => dnLast'.err = "NOT_STARTED"]_vars

(***************************************************************************)
(* Properties of the chunk manager.                                        *)
(***************************************************************************)
\* ceil(n / c)
CeilDiv(n, c) == (n + c - 1) \div c

\* C21: split of a buffer of length N with chunk size C >= 1 yields
\* ceil(N / C) descriptors; descriptor i (from 0) has index i, covers the
\* bytes [iC, min((i+1)C, N)) and carries their checksum, so the sizes sum
\* to N; the empty buffer yields no descriptor.
C21_SplitCoversBuffer ==
    dnLast.op = "split"
    => LET N == Len(dnLast.data)
           C == dnLast.chunkSize
           chunks == dnLast.val
           RECURSIVE SumOfSizes(_)
           SumOfSizes(i) == IF i = 0 THEN 0 ELSE chunks[i].size + SumOfSizes(i - 1)
       IN /\ Len(chunks) = CeilDiv(N, C)
          /\ \A i \in 1..Len(chunks) :
                /\ chunks[i].index = i - 1
                /\ chunks[i].size = Min(i * C, N) - (i - 1) * C
                /\ chunks[i].checksum =
                      calculateChecksum(SubSeq(dnLast.data, (i - 1) * C + 1, Min(i * C, N)))
          /\ SumOfSizes(Len(chunks)) = N
          /\ (N = 0 => chunks = <<>>)

\* A buffer was split into more than one chunk.
C21_Witness ==
    /\ dnLast.op = "split"
    /\ Len(dnLast.val) > 1

\* The chunks given to combine are the bytes their descriptors describe.
Untampered ==
    /\ dnLast.op = "combine"
    /\ Len(dnLast.chunks) = Len(dnLast.info)
    /\ \A i \in 1..Len(dnLast.info) :
          dnLast.chunks[i] = SubSeq(dnLast.data, dnLast.info[i].index * dnLast.chunkSize + 1,
                                    dnLast.info[i].index * dnLast.chunkSize
                                       + dnLast.info[i].size)

\* C22: combine of the descriptors that split(x, C) returned, each with the
\* bytes it describes and in any order of the pairs, returns x.
C22_CombineOfSplit ==
    Untampered => (dnLast.r.ok /\ dnLast.r.val = dnLast.data)

\* combine was given two chunks with the second descriptor first.
C22_Witness ==
    /\ Untampered
    /\ Len(dnLast.info) = 2
    /\ dnLast.info[1].index = 1
    /\ dnLast.r.ok

\* Pair i of the chunks given to combine fails verification.
BadPair(i) ==
    \/ Len(dnLast.chunks[i]) # dnLast.info[i].size
    \/ <<"sha256", dnLast.chunks[i]>> # dnLast.info[i].checksum

C24_ConnectOnlyWhenDisconnected ==
    [][(bridge' # bridge /\ bridge'.last.op = "connect")
       => /\ (bridge.connected \/ bridge.connecting > 0 \/ bridge.disconnecting)
             => (~bridge'.last.ok /\ bridge'.last.err = "ALREADY_CONNECTED")
          /\ bridge'.connecting + (IF bridge'.connected THEN 1 ELSE 0) <= 1]_vars

C25_EventsFollowStateChange ==
    /\ \A i \in 1..Len(events) :
          /\ events[i].type = "stored" => events[i].cached
          /\ events[i].type = "deleted" => ~events[i].cached
    /\ "events" \in DOMAIN dnLast
       => \A i \in 1..Len(dnLast.events) :
             /\ dnLast.events[i].type = "started" => dnLast.events[i].connected
             /\ dnLast.events[i].type = "stopped" => ~dnLast.events[i].connected
             /\ dnLast.events[i].type = "peer:disconnect" => ~dnLast.events[i].inTable

\* stop has emitted 'peer:disconnect' on a node whose storage manager has
\* emitted 'stored'.  (No delete of the storage manager reaches its emit,
\* getProvidersForMetadata giving it no provider.)
C25_Witness ==
    /\ \E i \in 1..Len(events) : events[i].type = "stored" /\ events[i].cached
    /\ dnLast.op = "disconnect"
    /\ \E i \in 1..Len(dnLast.events) : dnLast.events[i].type = "peer:disconnect"

\* The PING of the last discovery run to the peer failed.
PingFailed(peerId) == dnTransport = "peers" /\ peerId \in dnLast'.failing

C30_FailedReadNotCounted ==
    [][(nOps' # nOps /\ lastCall'.op = "local.retrieve"
        /\ lastCall'.err = "CHUNK_VALIDATION_ERROR")
       => /\ ~lastCall'.ok
          /\ stats'.local.reads = stats.local.reads]_vars

\* C36: at most one interval of the discovery is set at any time, and
\* none is set once stop() has completed.
C36_OneDiscoveryTimer ==
    /\ dnTimers <= 1
    /\ (~connected /\ dnStop.pc = "idle") => dnTimers = 0

IndexSorted(entries) ==
    \A i, j \in 1..Len(entries) :
       i < j => \/ entries[i].score > entries[j].score
                \/ /\ entries[i].score = entries[j].score
                   /\ entries[i].timestamp >= entries[j].timestamp

\* C33: under addToIndex calls made one after the other, the array of an
\* index key has at most MaxIndexEntries entries, is sorted by score
\* descending then timestamp descending and holds at most one entry per
\* content id; and adding once more the entry that was just added leaves
\* the array as it is.
C33_IndexCappedSortedUnique ==
    /\ \A key \in DOMAIN dht :
          /\ Len(dht[key]) <= MaxIndexEntries
          /\ IndexSorted(dht[key])
          /\ \A i, j \in 1..Len(dht[key]) : dht[key][i].value = dht[key][j].value => i = j
    /\ (lastCall.op = "addToIndex" /\ lastCall.ok)
       => addToIndex(World, lastCall.arg[1]).w.dht = dht

\* An add to an array of MaxIndexEntries entries of other content ids has
\* put its entry in and cut an entry out, and the array holds an entry that
\* is newer than its first one: the score decides before the timestamp.
C33_Witness ==
    /\ lastCall.op = "addToIndex"
    /\ lastCall.ok
    /\ \E key \in DOMAIN dht :
          /\ Len(dht[key]) = MaxIndexEntries
          /\ lastCall.arg[1].key = key
          /\ Len(lastCall.before[1]) = MaxIndexEntries
          /\ \A i \in 1..MaxIndexEntries : lastCall.before[1][i].value # lastCall.arg[1].value
          /\ \E i \in 1..MaxIndexEntries : dht[key][i] = lastCall.arg[1]
    /\ \E key \in DOMAIN dht : \E i \in 1..Len(dht[key]) :
          dht[key][i].timestamp > dht[key][1].timestamp

\* C34: the first addToIndex on an index key that was never written
\* returns and leaves under the key the array of the new entry alone.
C34_FirstAddStartsTheIndex ==
    (/\ lastCall.op = "addToIndex"
     /\ connected
     /\ lastCall.before = Undefined)
    => /\ lastCall.ok
       /\ lastCall.arg[1].key \in DOMAIN dht
       /\ dht[lastCall.arg[1].key] = <<lastCall.arg[1]>>

\* C35: when the put of an addToIndex returns, the array of the key holds
\* the entry of every addToIndex on the key that has returned.
C35_NoIndexUpdateLost ==
    [][(lastCall'.op = "addToIndex.put" /\ lastCall'.ok /\ lastCall' # lastCall)
       => \A key \in DOMAIN dht : \A i \in 1..Len(dht[key]) :
             \E j \in 1..Len(dht'[key]) : dht'[key][j].value = dht[key][i].value]_vars

(***************************************************************************)
(* Properties of the C0reNode, of the providers' statistics and of split.  *)
(***************************************************************************)
\* C37: when start() of the C0reNode has failed, the node is not running and
\* its bridge is not connected, and no start() of a node that is not running
\* is rejected with ALREADY_CONNECTED.
C37_FailedStartDisconnectsTheBridge ==
    (node.last.op = "start" /\ node.last.settled /\ ~node.last.ok /\ node.starting = 0)
    => /\ ~node.isRunning
       /\ ~bridge.connected
       /\ node.last.err # "ALREADY_CONNECTED"

\* C38: the files, chunks and used counters of the network and of the P2P
\* provider are never negative, and files is the number of artifacts the
\* provider has stored and not deleted since.
C38_StatsCountLiveArtifacts ==
    \A p \in {"network", "p2p"} :
       /\ stats[p].files >= 0
       /\ stats[p].chunks >= 0
       /\ stats[p].used >= 0
       /\ stats[p].files = Cardinality(LiveIds(p))

\* C39: a delete of the P2P provider leaves every other artifact that it
\* has stored, and that could be retrieved, retrievable, with all of its
\* chunks in localChunks.
C39_DeleteKeepsOtherArtifacts ==
    [][(nOps' # nOps /\ lastCall'.op = "provider.delete" /\ lastCall'.arg[1] = "p2p")
       => \A id \in LiveIds("p2p") \ {lastCall'.arg[2]} :
             P2PRetrieve(World, id).ok
             => /\ P2PRetrieve(World, id).ok'
                /\ \A i \in 1..Len(dht[P2PMetadataKey(id)].chunks) :
                      dht[P2PMetadataKey(id)].chunks[i].checksum \in DOMAIN localChunks']_vars

\* C40: split ends: every run of its loop moves the offset forward, so that
\* the loop runs at most data.length times.
C40_SplitLoopAdvances ==
    [][(dnLast.op = "split.loop" /\ dnLast'.op = "split.loop"
        /\ dnLast'.index = dnLast.index + 1)
       => /\ dnLast'.offset > dnLast.offset
          /\ dnLast'.index <= Len(dnLast.data)]_vars

=============================================================================
